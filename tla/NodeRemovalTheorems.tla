------------------------- MODULE NodeRemovalTheorems -------------------------
(***************************************************************************)
(* Proofs about TerminationRecovery, for every plan (any number of crashes,  *)
(* failed proofs and lost requests) and every bound on the issues: the       *)
(* finalizer goes last, nobody else's address is touched, and the slot keeps *)
(* assignments and detachments of the base firewall apart.                   *)
(***************************************************************************)
EXTENDS TerminationRecovery, TLAPS

PCs == {"idle", "enter", "read", "recallVM", "authorizeVM", "proveVM", "sendVM", "absent",
        "address", "proveUnassign", "sendUnassign", "authorizeDelete", "proveDelete",
        "sendDelete", "observeDelete", "confirm", "detach", "proveDetach", "sendDetach",
        "observeDetach", "converged", "returned"}

Journals == [op : Ops \cup {NoOp}, phase : {"ready", "issued", "observed", "rejected"},
             issue : Nat, deleted : BOOLEAN]
Auths == [op : Ops \cup {NoOp}, phase : {"none", "ready", "issued", "observed", "rejected"},
          issue : Nat, allow : BOOLEAN]
Detaches == [held : BOOLEAN, fresh : BOOLEAN, sent : BOOLEAN,
             phase : {"none", "issued", "observed"}, issue : Nat]
Locals == [pc : PCs, fip : BOOLEAN, auth : Auths, dt : Detaches]
Claims == [exists : BOOLEAN, term : BOOLEAN, marker : BOOLEAN,
           obs : {"none", "beforeMarker", "afterMarker"}]
Launches == [exists : BOOLEAN, pc : {"idle", "reissue", "slot", "post", "watch", "finish"},
             phase : {"issued", "rejected", "observed"}, issue : Nat]

TypeInv ==
    /\ claim \in Claims /\ journal \in Journals /\ slot \in Slots /\ launch \in Launches
    /\ vm \in {"live", "gone"} /\ fip \in {"assigned", "free", "none", "other"}
    /\ rel \subseteq {"target", "newcomer"} /\ wire \subseteq Requests /\ hit \in BOOLEAN
    /\ pass \in [Passes -> Locals]

-----------------------------------------------------------------------------
(* What a pass has established by the time it is somewhere. *)

AddressSettled == fip \in {"none", "other"}
AfterAddress == {"observeDelete", "confirm", "detach", "proveDetach", "sendDetach",
                 "observeDetach", "converged", "returned"}
AfterVM == {"detach", "proveDetach", "sendDetach", "observeDetach", "converged", "returned"}
AfterRelation == {"observeDetach", "converged", "returned"}

Ordered(pc, f) ==
    /\ pc \in {"authorizeVM", "proveVM", "sendVM"} => f
    /\ pc \in {"recallVM", "absent"} /\ ~f => AddressSettled
    /\ pc \in AfterAddress => AddressSettled
    /\ pc \in AfterVM => vm = "gone"
    /\ pc \in AfterRelation => "target" \notin rel

Runs(p) == (p = "karpenter" => plan.lifecycle) /\ (p = "recovery" => plan.recovery)

(* The steps of the removal are taken in order; what is gone stays gone; a   *)
(* controller that does not run has no pass.                                 *)
OrderInv ==
    /\ \A p \in Passes : ~At(p, "idle") => Runs(p)
    /\ \A p \in Passes : Ordered(pass[p].pc, pass[p].fip)
    /\ FinalizerLast

-----------------------------------------------------------------------------
(* The receipt of an address request that was sent, or is about to be. *)

AddressOps == {"unassign", "delete"}
Expected(op) == IF op = "unassign" THEN "assigned" ELSE "free"
ProvingAt(op) == IF op = "unassign" THEN "proveUnassign" ELSE "proveDelete"
SendingAt(op) == IF op = "unassign" THEN "sendUnassign" ELSE "sendDelete"

Standing(op) == journal.op = op /\ journal.phase = "issued"

(* A request in flight or about to leave has the journal's issued receipt,   *)
(* and there is one of them; whoever is proving that receipt is the only one *)
(* and nothing was sent for it; once the address is gone nothing is under    *)
(* way.                                                                      *)
JournalInv ==
    /\ \A op \in AddressOps : op \in wire =>
          Standing(op) /\ \A p \in Passes : ~At(p, SendingAt(op))
    /\ \A op \in AddressOps : \A p \in Passes : At(p, SendingAt(op)) =>
          Standing(op) /\ \A q \in Passes : At(q, SendingAt(op)) => q = p
    /\ \A op \in AddressOps : \A p \in Passes : At(p, ProvingAt(op)) =>
          /\ pass[p].auth.op = op /\ pass[p].auth.issue <= journal.issue
          /\ fip = Expected(op) => Standing(op) /\ pass[p].auth.issue = journal.issue
          /\ pass[p].auth.issue = journal.issue =>
                /\ op \notin wire
                /\ \A q \in Passes : ~At(q, SendingAt(op))
                /\ \A q \in Passes : At(q, ProvingAt(op)) /\ pass[q].auth.issue = journal.issue
                                        => q = p
    /\ AddressSettled => \A op \in AddressOps :
          op \notin wire /\ \A p \in Passes : ~At(p, SendingAt(op))
    /\ \A p \in Passes : pass[p].pc \in {"authorizeDelete", "proveDelete"} => fip # "assigned"
    /\ \A p \in Passes : pass[p].pc \in {"proveVM", "sendVM", "absent"} =>
          pass[p].auth.op = "vm" \/ pass[p].auth.phase = "none"
    /\ ~hit

-----------------------------------------------------------------------------
(* The firewall slot. *)

Assigning == slot.owner = "newcomer" /\ slot.op = "assign" /\ slot.phase = "issued"
             /\ slot.issue = launch.issue /\ launch.exists /\ launch.phase = "issued"
Detaching == slot.owner = "target" /\ slot.op = "detach" /\ slot.phase = "issued" /\ claim.exists

(* One controller removes the claim at a time.  A POST of the newcomer has   *)
(* its issued slot until it is read back, and is sent once.                  *)
LaunchInv ==
    /\ launch.pc # "idle" => launch.exists
    /\ launch.pc = "slot" => launch.phase = "issued"
    /\ launch.pc = "reissue" => launch.phase = "rejected"
    /\ launch.pc = "finish" => launch.phase \in {"observed", "rejected"}
    /\ "assign" \in wire => Assigning /\ launch.pc # "post"
    /\ launch.pc = "post" => Assigning
    /\ "newcomer" \in rel =>
          /\ "assign" \notin wire /\ launch.pc # "post"
          /\ launch.phase = "observed" \/ Assigning

(* A detachment in flight or about to leave has the target's issued slot;    *)
(* nothing was sent for a slot just taken; once the relation is proved gone  *)
(* nothing is under way.                                                     *)
DetachInv ==
    /\ "detach" \in wire => Detaching
    /\ \A p \in Passes :
          /\ pass[p].pc \in {"proveDetach", "sendDetach"} =>
                Detaching /\ slot.issue = pass[p].dt.issue /\ pass[p].dt.held
          /\ pass[p].pc = "detach" /\ FirstDispatch(p) =>
                Detaching /\ slot.issue = pass[p].dt.issue
          /\ pass[p].pc \in {"detach", "proveDetach", "sendDetach"} /\ FirstDispatch(p) =>
                "detach" \notin wire
          /\ pass[p].pc \in AfterRelation => "detach" \notin wire
          /\ pass[p].pc \notin AfterVM => ~pass[p].dt.fresh
    /\ claim.marker \/ ~claim.term =>
          /\ "detach" \notin wire
          /\ \A p \in Passes : pass[p].pc \in {"idle", "enter", "returned"}
    /\ ~claim.term => \A p \in Passes : At(p, "idle")
    /\ claim.term => claim.exists

SlotInv ==
    plan.late \/ (plan.lifecycle /\ plan.recovery) \/ (LaunchInv /\ DetachInv)

RemovalInv == TypeInv /\ OrderInv /\ (plan.late \/ JournalInv) /\ SlotInv
-----------------------------------------------------------------------------
(* What a step makes of the pass it belongs to. *)

Becomes(p, pc, f, a, d) ==
    /\ pass' \in [Passes -> Locals]
    /\ pass'[p].pc = pc /\ pass'[p].fip = f /\ pass'[p].auth = a /\ pass'[p].dt = d
    /\ \A q \in Passes : q # p => pass'[q] = pass[q]

LEMMA Fields ==
  ASSUME TypeInv, NEW p \in Passes
  PROVE  /\ pass[p].pc \in PCs /\ pass[p].fip \in BOOLEAN
         /\ pass[p].auth \in Auths /\ pass[p].dt \in Detaches
  BY DEF TypeInv, Locals

LEMMA IdleIsLocal ==
  /\ Inactive \in Auths /\ NoDetach \in Detaches /\ Idle \in Locals
  BY DEF Inactive, NoOp, Ops, Auths, NoDetach, Detaches, Idle, Locals, PCs

LEMMA GotoMoves ==
  ASSUME TypeInv, NEW p \in Passes, NEW pc \in PCs, Goto(p, pc)
  PROVE  Becomes(p, pc, pass[p].fip, pass[p].auth, pass[p].dt)
  BY DEF TypeInv, Goto, Becomes, Locals

LEMMA FailMoves ==
  ASSUME TypeInv, NEW p \in Passes, Fail(p)
  PROVE  Becomes(p, "idle", FALSE, Inactive, NoDetach)
  <1>1. pass' \in [Passes -> Locals] /\ pass'[p] = Idle
        /\ \A q \in Passes : q # p => pass'[q] = pass[q]
    BY IdleIsLocal DEF TypeInv, Fail
  <1> QED
    BY <1>1 DEF Becomes, Idle

LEMMA AddressMoves ==
  ASSUME TypeInv, NEW p \in Passes, NEW pc \in PCs, NEW f \in BOOLEAN,
         pass' = [pass EXCEPT ![p].pc = pc, ![p].fip = f]
  PROVE  Becomes(p, pc, f, pass[p].auth, pass[p].dt)
  BY Zenon DEF TypeInv, Becomes, Locals

LEMMA AuthMoves ==
  ASSUME TypeInv, NEW p \in Passes, NEW pc \in PCs, NEW a \in Auths,
         pass' = [pass EXCEPT ![p].pc = pc, ![p].auth = a]
  PROVE  Becomes(p, pc, pass[p].fip, a, pass[p].dt)
  BY Zenon DEF TypeInv, Becomes, Locals

LEMMA DetachMoves ==
  ASSUME TypeInv, NEW p \in Passes, NEW pc \in PCs, NEW d \in Detaches,
         pass' = [pass EXCEPT ![p].pc = pc, ![p].dt = d]
  PROVE  Becomes(p, pc, pass[p].fip, pass[p].auth, d)
  BY Zenon DEF TypeInv, Becomes, Locals

LEMMA SettledMoves ==
  ASSUME TypeInv, NEW p \in Passes, NEW pc \in PCs, Settled(p, pc)
  PROVE  Becomes(p, pc, pass[p].fip, Inactive, pass[p].dt)
  BY AuthMoves, IdleIsLocal, Zenon DEF Settled

LEMMA InitTypes == RInit => TypeInv
  <1> SUFFICES ASSUME RInit PROVE TypeInv
    OBVIOUS
  <1>1. pass \in [Passes -> Locals]
    BY IdleIsLocal DEF RInit, Init
  <1>2. claim \in Claims /\ journal \in Journals /\ slot \in Slots
    BY DEF RInit, Init, Claims, Journals, Slots, Ready, Empty, NoOp, Ops
  <1>3. launch \in Launches
    BY PlansAssumption DEF RInit, Init, Launches
  <1>4. vm \in {"live", "gone"} /\ fip \in {"assigned", "free", "none", "other"}
        /\ rel \subseteq {"target", "newcomer"} /\ wire \subseteq Requests /\ hit \in BOOLEAN
    BY Zenon DEF RInit, Init
  <1> QED
    BY <1>1, <1>2, <1>3, <1>4 DEF TypeInv

-----------------------------------------------------------------------------
(* Steps that change little: what the pass must satisfy where it arrives. *)

LEMMA OrderMoves ==
  ASSUME TypeInv, OrderInv, NEW p \in Passes, NEW pc, NEW f, NEW a, NEW d,
         Becomes(p, pc, f, a, d), UNCHANGED <<plan, vm, fip, rel>>,
         Ordered(pc, f), Runs(p), FinalizerLast'
  PROVE  OrderInv'
  <1> SUFFICES ASSUME NEW q \in Passes
               PROVE  (~At(q, "idle") => Runs(q))' /\ Ordered(pass[q].pc, pass[q].fip)'
    BY DEF OrderInv
  <1>1. CASE q = p
    BY <1>1 DEF Becomes, Ordered, AddressSettled, Runs
  <1>2. CASE q # p
    BY <1>2 DEF OrderInv, Becomes, Ordered, AddressSettled, Runs, At
  <1> QED
    BY <1>1, <1>2

LEMMA OrderStays ==
  ASSUME OrderInv, UNCHANGED <<plan, vm, fip, rel, pass>>, FinalizerLast'
  PROVE  OrderInv'
  BY DEF OrderInv, Ordered, AddressSettled, Runs, At

LEMMA FinalizerStays ==
  ASSUME OrderInv, UNCHANGED <<plan, vm, fip, rel, claim, node>>
  PROVE  FinalizerLast'
  BY DEF OrderInv, FinalizerLast

(* Where a pass needs nothing of the journal. *)
JournalFree(pc, a) ==
    /\ pc \notin {"proveUnassign", "sendUnassign", "proveDelete", "sendDelete"}
    /\ pc = "authorizeDelete" => fip # "assigned"
    /\ pc \in {"proveVM", "sendVM", "absent"} => a.op = "vm" \/ a.phase = "none"

(* The receipt of op may be settled, or replaced, by pass p. *)
Releasable(p, op) ==
    /\ op \notin wire
    /\ \A q \in Passes : q # p =>
          /\ ~At(q, SendingAt(op))
          /\ At(q, ProvingAt(op)) => fip # Expected(op)

JournalMoved(p) ==
    \/ /\ journal'.issue = journal.issue
       /\ \A op \in AddressOps : Standing(op) => Standing(op)' \/ Releasable(p, op)
    \/ /\ journal'.issue = journal.issue + 1
       /\ \A op \in AddressOps : ~Standing(op)

LEMMA JournalMoves ==
  ASSUME TypeInv, JournalInv, NEW p \in Passes, NEW pc, NEW f, NEW a, NEW d,
         Becomes(p, pc, f, a, d), UNCHANGED <<fip, hit>>,
         \A op \in AddressOps : op \in wire' <=> op \in wire,
         JournalMoved(p), JournalFree(pc, a)
  PROVE  JournalInv'
  <1> USE DEF AddressOps, Expected, ProvingAt, SendingAt, At
  <1>0. journal.issue \in Nat /\ \A q \in Passes : pass[q].auth.issue \in Nat
    BY DEF TypeInv, Journals, Locals, Auths
  <1>1. \A op \in AddressOps : ~At(p, SendingAt(op))' /\ ~At(p, ProvingAt(op))'
    BY DEF Becomes, JournalFree
  <1>2. \A q \in Passes : q # p => pass'[q] = pass[q]
    BY DEF Becomes
  <1>3. ASSUME NEW op \in AddressOps, op \in wire'
        PROVE  (Standing(op) /\ \A q \in Passes : ~At(q, SendingAt(op)))'
    BY <1>1, <1>2, <1>3 DEF JournalInv, JournalMoved, Releasable
  <1>4. ASSUME NEW op \in AddressOps, NEW q \in Passes, At(q, SendingAt(op))'
        PROVE  (Standing(op) /\ \A r \in Passes : At(r, SendingAt(op)) => r = q)'
    BY <1>1, <1>2, <1>4 DEF JournalInv, JournalMoved, Releasable
  <1>5. ASSUME NEW op \in AddressOps, NEW q \in Passes, At(q, ProvingAt(op))'
        PROVE  (/\ pass[q].auth.op = op /\ pass[q].auth.issue <= journal.issue
                /\ fip = Expected(op) => Standing(op) /\ pass[q].auth.issue = journal.issue
                /\ pass[q].auth.issue = journal.issue =>
                      /\ op \notin wire
                      /\ \A r \in Passes : ~At(r, SendingAt(op))
                      /\ \A r \in Passes : At(r, ProvingAt(op)) /\ pass[r].auth.issue = journal.issue
                                        => r = q)'
    <2>1. q # p /\ pass'[q] = pass[q] /\ At(q, ProvingAt(op))
      BY <1>1, <1>2, <1>5
    <2>2. CASE journal'.issue = journal.issue
               /\ \A o \in AddressOps : Standing(o) => Standing(o)' \/ Releasable(p, o)
      BY <1>0, <1>1, <1>2, <2>1, <2>2 DEF JournalInv, Releasable
    <2>3. CASE journal'.issue = journal.issue + 1 /\ \A o \in AddressOps : ~Standing(o)
      BY <1>0, <1>1, <1>2, <2>1, <2>3 DEF JournalInv
    <2> QED
      BY <2>2, <2>3 DEF JournalMoved
  <1>6. (AddressSettled => \A op \in AddressOps :
            op \notin wire /\ \A q \in Passes : ~At(q, SendingAt(op)))'
    BY <1>1, <1>2 DEF JournalInv, AddressSettled
  <1>7. \A q \in Passes :
          /\ pass'[q].pc \in {"authorizeDelete", "proveDelete"} => fip' # "assigned"
          /\ pass'[q].pc \in {"proveVM", "sendVM", "absent"} =>
                pass'[q].auth.op = "vm" \/ pass'[q].auth.phase = "none"
    BY <1>2 DEF JournalInv, JournalFree, Becomes
  <1>8. ~hit'
    BY DEF JournalInv
  <1> HIDE DEF AddressOps, Expected, ProvingAt, SendingAt, At
  <1> QED
    BY <1>3, <1>4, <1>5, <1>6, <1>7, <1>8 DEF JournalInv

(* A fresh receipt, its proof and its dispatch. *)

LEMMA JournalIssued ==
  ASSUME TypeInv, JournalInv, NEW p \in Passes, NEW f, NEW a, NEW d, NEW op \in AddressOps,
         Becomes(p, ProvingAt(op), f, a, d), UNCHANGED <<fip, hit, wire>>,
         \A o \in AddressOps : ~Standing(o),
         Standing(op)', journal'.issue = journal.issue + 1,
         a.op = op, a.issue = journal'.issue, op = "delete" => fip # "assigned"
  PROVE  JournalInv'
  <1> USE DEF AddressOps, Expected, ProvingAt, SendingAt, At
  <1>0. journal.issue \in Nat /\ \A q \in Passes : pass[q].auth.issue \in Nat
    BY DEF TypeInv, Journals, Locals, Auths
  <1>1. \A q \in Passes : q # p => pass'[q] = pass[q]
    BY DEF Becomes
  <1>2. \A o \in AddressOps : o \notin wire' /\ \A q \in Passes : ~At(q, SendingAt(o))'
    BY <1>1 DEF JournalInv, Becomes
  <1>3. ASSUME NEW o \in AddressOps, NEW q \in Passes, At(q, ProvingAt(o))'
        PROVE  (/\ pass[q].auth.op = o /\ pass[q].auth.issue <= journal.issue
                /\ fip = Expected(o) => Standing(o) /\ pass[q].auth.issue = journal.issue
                /\ pass[q].auth.issue = journal.issue =>
                      /\ o \notin wire
                      /\ \A r \in Passes : ~At(r, SendingAt(o))
                      /\ \A r \in Passes : At(r, ProvingAt(o)) /\ pass[r].auth.issue = journal.issue
                                        => r = q)'
    <2>1. CASE q = p
      BY <1>0, <1>1, <1>2, <1>3, <2>1 DEF JournalInv, Becomes
    <2>2. CASE q # p
      BY <1>0, <1>1, <1>2, <1>3, <2>2 DEF JournalInv, Becomes
    <2> QED
      BY <2>1, <2>2
  <1>4. \A q \in Passes :
          /\ pass'[q].pc \in {"authorizeDelete", "proveDelete"} => fip' # "assigned"
          /\ pass'[q].pc \in {"proveVM", "sendVM", "absent"} =>
                pass'[q].auth.op = "vm" \/ pass'[q].auth.phase = "none"
    BY <1>1 DEF JournalInv, Becomes
  <1>5. ~hit'
    BY DEF JournalInv
  <1> HIDE DEF AddressOps, Expected, ProvingAt, SendingAt, At
  <1> QED
    BY <1>2, <1>3, <1>4, <1>5, Zenon DEF JournalInv

LEMMA JournalProved ==
  ASSUME TypeInv, JournalInv, NEW p \in Passes, NEW f, NEW a, NEW d, NEW op \in AddressOps,
         At(p, ProvingAt(op)), fip = Expected(op),
         Becomes(p, SendingAt(op), f, a, d), UNCHANGED <<fip, hit, wire, journal>>
  PROVE  JournalInv'
  <1> USE DEF AddressOps, Expected, ProvingAt, SendingAt, At
  <1>1. \A q \in Passes : q # p => pass'[q] = pass[q]
    BY DEF Becomes
  <1>2. /\ Standing(op) /\ op \notin wire
        /\ \A q \in Passes : ~At(q, SendingAt(op))
        /\ \A q \in Passes : At(q, ProvingAt(op)) => q = p
    BY DEF JournalInv
  <1>3. \A o \in AddressOps : o # op => ~Standing(o) /\ o \notin wire /\ \A q \in Passes : ~At(q, SendingAt(o))
    BY <1>2 DEF JournalInv, Standing
  <1>4. ASSUME NEW o \in AddressOps, NEW q \in Passes, At(q, ProvingAt(o))'
        PROVE  (/\ pass[q].auth.op = o /\ pass[q].auth.issue <= journal.issue
                /\ fip = Expected(o) => Standing(o) /\ pass[q].auth.issue = journal.issue
                /\ pass[q].auth.issue = journal.issue =>
                      /\ o \notin wire
                      /\ \A r \in Passes : ~At(r, SendingAt(o))
                      /\ \A r \in Passes : At(r, ProvingAt(o)) /\ pass[r].auth.issue = journal.issue
                                        => r = q)'
    <2>1. q # p /\ o # op
      BY <1>1, <1>2, <1>4 DEF Becomes
    <2>2. \A r \in Passes : ~At(r, SendingAt(o))'
      BY <1>1, <1>3, <2>1 DEF Becomes
    <2> QED
      BY <1>1, <1>4, <2>1, <2>2 DEF JournalInv, Becomes, Standing
  <1>5. \A o \in AddressOps : o \notin wire'
    BY <1>2, <1>3
  <1>6. ASSUME NEW o \in AddressOps, NEW q \in Passes, At(q, SendingAt(o))'
        PROVE  (Standing(o) /\ \A r \in Passes : At(r, SendingAt(o)) => r = q)'
    BY <1>1, <1>2, <1>3, <1>6 DEF Becomes, Standing
  <1>7. \A q \in Passes :
          /\ pass'[q].pc \in {"authorizeDelete", "proveDelete"} => fip' # "assigned"
          /\ pass'[q].pc \in {"proveVM", "sendVM", "absent"} =>
                pass'[q].auth.op = "vm" \/ pass'[q].auth.phase = "none"
    BY <1>1 DEF JournalInv, Becomes
  <1>8. ~hit' /\ ~AddressSettled'
    BY DEF JournalInv, AddressSettled
  <1> HIDE DEF AddressOps, Expected, ProvingAt, SendingAt, At
  <1> QED
    BY <1>4, <1>5, <1>6, <1>7, <1>8, Zenon DEF JournalInv

LEMMA JournalSent ==
  ASSUME TypeInv, JournalInv, NEW p \in Passes, NEW f, NEW a, NEW d, NEW op \in AddressOps,
         At(p, SendingAt(op)),
         Becomes(p, "address", f, a, d), UNCHANGED <<fip, hit, journal>>, wire' = wire \cup {op}
  PROVE  JournalInv'
  <1> USE DEF AddressOps, Expected, ProvingAt, SendingAt, At
  <1>1. \A q \in Passes : q # p => pass'[q] = pass[q]
    BY DEF Becomes
  <1>2. Standing(op) /\ ~AddressSettled /\ \A q \in Passes : At(q, SendingAt(op)) => q = p
    BY DEF JournalInv
  <1>3. \A o \in AddressOps : o # op => ~Standing(o) /\ o \notin wire /\ \A q \in Passes : ~At(q, SendingAt(o))
    BY <1>2 DEF JournalInv, Standing
  <1>4. \A o \in AddressOps, q \in Passes : ~At(q, SendingAt(o))'
    BY <1>1, <1>2, <1>3 DEF Becomes
  <1>5. ASSUME NEW o \in AddressOps, NEW q \in Passes, At(q, ProvingAt(o))'
        PROVE  (/\ pass[q].auth.op = o /\ pass[q].auth.issue <= journal.issue
                /\ fip = Expected(o) => Standing(o) /\ pass[q].auth.issue = journal.issue
                /\ pass[q].auth.issue = journal.issue =>
                      /\ o \notin wire
                      /\ \A r \in Passes : ~At(r, SendingAt(o))
                      /\ \A r \in Passes : At(r, ProvingAt(o)) /\ pass[r].auth.issue = journal.issue
                                        => r = q)'
    <2>1. q # p /\ pass'[q] = pass[q] /\ At(q, ProvingAt(o))
      BY <1>1, <1>5 DEF Becomes
    <2>2. pass[q].auth.issue = journal.issue => o # op
      BY <2>1 DEF JournalInv
    <2> QED
      BY <1>1, <1>4, <2>1, <2>2 DEF JournalInv, Becomes, Standing
  <1>6. \A o \in AddressOps : o \in wire' => Standing(o)'
    BY <1>2, <1>3 DEF Standing
  <1>7. \A q \in Passes :
          /\ pass'[q].pc \in {"authorizeDelete", "proveDelete"} => fip' # "assigned"
          /\ pass'[q].pc \in {"proveVM", "sendVM", "absent"} =>
                pass'[q].auth.op = "vm" \/ pass'[q].auth.phase = "none"
    BY <1>1 DEF JournalInv, Becomes
  <1>8. ~hit' /\ ~AddressSettled'
    BY <1>2 DEF JournalInv, AddressSettled
  <1> HIDE DEF AddressOps, Expected, ProvingAt, SendingAt, At
  <1> QED
    BY <1>4, <1>5, <1>6, <1>7, <1>8, Zenon DEF JournalInv

LEMMA JournalStays ==
  ASSUME JournalInv, UNCHANGED <<fip, hit, journal, pass>>,
         \A op \in AddressOps : op \in wire' => op \in wire
  PROVE  JournalInv'
  BY DEF JournalInv, AddressOps, AddressSettled, Standing, At, ProvingAt, SendingAt, Expected

-----------------------------------------------------------------------------
(* The slot: with one controller, the pass that moves is the only one. *)

OneController == ~plan.late /\ ~(plan.lifecycle /\ plan.recovery)

LEMMA Alone ==
  ASSUME TypeInv, OrderInv, OneController, NEW p \in Passes, Runs(p)
  PROVE  \A q \in Passes : q # p => At(q, "idle")
  BY DEF OrderInv, OneController, Runs, Passes

(* Where a pass needs nothing of the slot. *)
SlotFree(pc, d) ==
    /\ pc \notin {"proveDetach", "sendDetach", "observeDetach", "converged"}
    /\ pc = "returned" => claim.marker
    /\ ~d.fresh
    /\ claim.marker \/ ~claim.term => pc \in {"idle", "enter", "returned"}
    /\ ~claim.term => pc = "idle"

SameClaim == /\ claim'.exists = claim.exists /\ claim'.term = claim.term
             /\ claim'.marker = claim.marker

LEMMA DetachMovesOn ==
  ASSUME TypeInv, OrderInv, OneController, DetachInv, NEW p \in Passes,
         NEW pc, NEW f, NEW a, NEW d, Becomes(p, pc, f, a, d), Runs(p), SlotFree(pc, d),
         SameClaim, UNCHANGED slot, "detach" \in wire' => "detach" \in wire
  PROVE  DetachInv'
  <1>1. \A q \in Passes : q # p => At(q, "idle") /\ pass'[q] = pass[q]
    BY Alone DEF Becomes
  <1>2. \A q \in Passes : ~pass'[q].dt.fresh
    BY <1>1 DEF Becomes, SlotFree, DetachInv, At, AfterVM
  <1>3. \A q \in Passes :
          /\ pass'[q].pc \notin {"proveDetach", "sendDetach", "observeDetach", "converged"}
          /\ pass'[q].pc = "returned" => "detach" \notin wire'
    BY <1>1 DEF Becomes, SlotFree, DetachInv, At
  <1>4. "detach" \in wire' => Detaching'
    BY DEF DetachInv, Detaching, SameClaim
  <1>5. (claim.marker \/ ~claim.term =>
          /\ "detach" \notin wire
          /\ \A q \in Passes : pass[q].pc \in {"idle", "enter", "returned"})'
    BY <1>1 DEF Becomes, SlotFree, DetachInv, SameClaim, At
  <1>6. (~claim.term => \A q \in Passes : At(q, "idle"))'
    BY <1>1 DEF Becomes, SlotFree, DetachInv, SameClaim, At
  <1> QED
    BY <1>2, <1>3, <1>4, <1>5, <1>6, Zenon DEF DetachInv, SameClaim, FirstDispatch, AfterRelation

LEMMA DetachStays ==
  ASSUME DetachInv, UNCHANGED <<slot, pass>>, SameClaim, "detach" \in wire' => "detach" \in wire
  PROVE  DetachInv'
  BY DEF DetachInv, SameClaim, Detaching, FirstDispatch, At

LEMMA LaunchStays ==
  ASSUME LaunchInv, UNCHANGED <<slot, launch>>,
         "assign" \in wire' => "assign" \in wire,
         "newcomer" \in rel' => "newcomer" \in rel
  PROVE  LaunchInv'
  BY DEF LaunchInv, Assigning

(* A slot that is not the newcomer's issue changes hands behind its back. *)
LEMMA LaunchApart ==
  ASSUME LaunchInv, UNCHANGED <<rel, wire, launch>>, ~Assigning
  PROVE  LaunchInv'
  BY DEF LaunchInv, Assigning

LEMMA SlotKept ==
  ASSUME SlotInv, UNCHANGED plan,
         OneController /\ LaunchInv /\ DetachInv => LaunchInv' /\ DetachInv'
  PROVE  SlotInv'
  BY DEF SlotInv, OneController

(* Every step of a pass that changes, besides itself, at most the journal,   *)
(* and sends nothing that concerns the firewall.                             *)
LEMMA MovesJournal ==
  ASSUME RemovalInv, NEW p \in Passes, NEW pc, NEW f, NEW a, NEW d,
         Becomes(p, pc, f, a, d), Runs(p),
         UNCHANGED <<plan, claim, slot, launch, vm, fip, rel, hit, node>>,
         wire' \in SUBSET Requests, \A r \in {"assign", "detach"} : r \in wire' => r \in wire,
         journal' \in Journals, Ordered(pc, f),
         plan.late \/ JournalInv',
         OneController /\ DetachInv => SlotFree(pc, d)
  PROVE  RemovalInv'
  <1>1. TypeInv'
    BY DEF RemovalInv, TypeInv, Becomes
  <1>2. OrderInv'
    BY OrderMoves, FinalizerStays DEF RemovalInv
  <1>3. SlotInv'
    BY SlotKept, LaunchStays, DetachMovesOn DEF RemovalInv, SameClaim
  <1> QED
    BY <1>1, <1>2, <1>3 DEF RemovalInv

LEMMA Moves ==
  ASSUME RemovalInv, NEW p \in Passes, NEW pc, NEW f, NEW a, NEW d,
         Becomes(p, pc, f, a, d), Runs(p),
         UNCHANGED <<plan, claim, slot, launch, vm, fip, rel, wire, hit, node>>,
         journal' \in Journals, plan.late \/ JournalMoved(p),
         Ordered(pc, f), plan.late \/ JournalFree(pc, a),
         OneController /\ DetachInv => SlotFree(pc, d)
  PROVE  RemovalInv'
  <1>1. plan.late \/ JournalInv'
    BY JournalMoves DEF RemovalInv
  <1> QED
    BY <1>1, MovesJournal DEF RemovalInv, TypeInv

LEMMA JournalUnmoved ==
  ASSUME TypeInv, UNCHANGED journal, NEW p \in Passes
  PROVE  journal' \in Journals /\ JournalMoved(p)
  BY DEF TypeInv, JournalMoved, Standing

-----------------------------------------------------------------------------
(* The reads, and a pass that gives up. *)

LEMMA Running ==
  ASSUME RemovalInv, NEW p \in Passes, ~At(p, "idle")
  PROVE  Runs(p)
  BY DEF RemovalInv, OrderInv

LEMMA Unmarked ==
  ASSUME DetachInv, NEW p \in Passes, pass[p].pc \notin {"idle", "enter", "returned"}
  PROVE  ~claim.marker /\ claim.term /\ claim.exists
  BY DEF DetachInv, At

LEMMA Fails ==
  ASSUME RemovalInv, NEW p \in Passes, ~At(p, "idle"), Fail(p),
         UNCHANGED <<plan, claim, journal, slot, launch, vm, fip, rel, wire, hit, node>>
  PROVE  RemovalInv'
  <1>1. Becomes(p, "idle", FALSE, Inactive, NoDetach)
    BY FailMoves, Zenon DEF RemovalInv
  <1>2. Ordered("idle", FALSE) /\ JournalFree("idle", Inactive) /\ SlotFree("idle", NoDetach)
    BY DEF Ordered, AfterAddress, AfterVM, AfterRelation, JournalFree, SlotFree, NoDetach
  <1> QED
    BY <1>1, <1>2, Running, Moves, JournalUnmoved, Zenon DEF RemovalInv

LEMMA EnterStep ==
  ASSUME RemovalInv, NEW p \in Passes, Step(Enter(p))
  PROVE  RemovalInv'
  <1> DEFINE pc == IF claim.marker /\ VMAbsent THEN "returned" ELSE "read"
  <1>1. At(p, "enter") /\ Goto(p, pc)
    BY DEF Step, Enter
  <1>2. Becomes(p, pc, pass[p].fip, pass[p].auth, pass[p].dt)
    BY <1>1, GotoMoves DEF RemovalInv, PCs
  <1>3. Ordered(pc, pass[p].fip) /\ JournalFree(pc, pass[p].auth)
    BY DEF RemovalInv, OrderInv, FinalizerLast, Ordered, AfterAddress, AfterVM, AfterRelation,
           AddressSettled, JournalFree
  <1>4. OneController /\ DetachInv => SlotFree(pc, pass[p].dt)
    BY <1>1 DEF RemovalInv, OrderInv, FinalizerLast, VMAbsent, SlotFree, DetachInv, At, AfterVM
  <1> HIDE DEF pc
  <1>5. Runs(p)
    BY <1>1, Running DEF At
  <1> QED
    BY <1>2, <1>3, <1>4, <1>5, Moves, JournalUnmoved DEF RemovalInv, Step, Enter, cloud

LEMMA ReadStep ==
  ASSUME RemovalInv, NEW p \in Passes, Step(ReadLive(p)) \/ Step(ReadGone(p))
  PROVE  RemovalInv'
  <1>1. /\ At(p, "read") /\ ~At(p, "idle")
        /\ UNCHANGED <<plan, claim, journal, slot, launch, vm, fip, rel, wire, hit, node>>
    BY DEF Step, ReadLive, ReadGone, At, cloud
  <1>2. OneController /\ DetachInv => SlotFree("authorizeVM", pass[p].dt) /\ SlotFree("recallVM", pass[p].dt)
    BY <1>1, Unmarked, Zenon DEF SlotFree, DetachInv, At, AfterVM
  <1>3. /\ Ordered("authorizeVM", TRUE) /\ Ordered("recallVM", TRUE)
        /\ OrphanGone(p) => Ordered("recallVM", FALSE)
    BY DEF Ordered, AfterAddress, AfterVM, AfterRelation, OrphanGone, Reallocated, Shown, AddressSettled
  <1>4. JournalFree("authorizeVM", pass[p].auth) /\ JournalFree("recallVM", pass[p].auth)
    BY DEF JournalFree
  <1>5. \A pc \in {"authorizeVM", "recallVM"}, f \in BOOLEAN :
          pass' = [pass EXCEPT ![p].pc = pc, ![p].fip = f]
              => Becomes(p, pc, f, pass[p].auth, pass[p].dt)
    BY AddressMoves, Zenon DEF RemovalInv, PCs
  <1>6. CASE Fail(p)
    BY <1>1, <1>6, Fails
  <1>7. CASE pass' = [pass EXCEPT ![p].pc = "authorizeVM", ![p].fip = TRUE]
    BY <1>1, <1>2, <1>3, <1>4, <1>5, <1>7, Moves, Running, JournalUnmoved, Zenon DEF RemovalInv
  <1>8. CASE pass' = [pass EXCEPT ![p].pc = "recallVM", ![p].fip = TRUE]
    BY <1>1, <1>2, <1>3, <1>4, <1>5, <1>8, Moves, Running, JournalUnmoved, Zenon DEF RemovalInv
  <1>9. CASE OrphanGone(p) /\ pass' = [pass EXCEPT ![p].pc = "recallVM", ![p].fip = FALSE]
    BY <1>1, <1>2, <1>3, <1>4, <1>5, <1>9, Moves, Running, JournalUnmoved, Zenon DEF RemovalInv
  <1> QED
    BY <1>6, <1>7, <1>8, <1>9 DEF Step, ReadLive, ReadGone

LEMMA RecallTypes ==
  ASSUME TypeInv, NEW op \in Ops
  PROVE  Recall(journal, op) \in Auths /\ (Recall(journal, op).op = op \/ Recall(journal, op) = Inactive)
  BY IdleIsLocal DEF TypeInv, Journals, Recall, Observation, Fence, Auths, NoOp, Ops

LEMMA RecallStep ==
  ASSUME RemovalInv, NEW p \in Passes, Step(RecallVM(p))
  PROVE  RemovalInv'
  <1> DEFINE a == Recall(journal, "vm")
  <1>1. At(p, "recallVM") /\ ~At(p, "idle") /\ pass' = [pass EXCEPT ![p].pc = "absent", ![p].auth = a]
    BY DEF Step, RecallVM, At
  <1>2. a \in Auths /\ (a.op = "vm" \/ a.phase = "none")
    BY RecallTypes DEF RemovalInv, Ops, Inactive
  <1> HIDE DEF a
  <1>3. Becomes(p, "absent", pass[p].fip, a, pass[p].dt)
    BY <1>1, <1>2, AuthMoves, Zenon DEF RemovalInv, PCs
  <1>4. Ordered("absent", pass[p].fip) /\ JournalFree("absent", a)
    BY <1>1, <1>2 DEF RemovalInv, OrderInv, Ordered, AfterAddress, AfterVM, AfterRelation, At, JournalFree
  <1>5. OneController /\ DetachInv => SlotFree("absent", pass[p].dt)
    BY <1>1, Unmarked DEF SlotFree, DetachInv, At, AfterVM
  <1> QED
    BY <1>1, <1>3, <1>4, <1>5, Running, Moves, JournalUnmoved DEF RemovalInv, Step, RecallVM, cloud

-----------------------------------------------------------------------------
(* The calls of the removal journal. *)

LEMMA FinishedTypes ==
  ASSUME TypeInv, NEW terminal \in {"observed", "rejected"}
  PROVE  /\ Finished(journal, terminal) \in Journals
         /\ Finished(journal, terminal).op = journal.op
         /\ Finished(journal, terminal).phase = terminal
         /\ Finished(journal, terminal).issue = journal.issue
  BY Zenon DEF TypeInv, Journals, Finished

LEMMA FinishMoves ==
  ASSUME TypeInv, NEW p \in Passes, NEW terminal \in {"observed", "rejected"},
         journal' = Finished(journal, terminal),
         journal.op \in AddressOps /\ journal.phase = "issued" => Releasable(p, journal.op)
  PROVE  journal' \in Journals /\ JournalMoved(p)
  BY FinishedTypes DEF JournalMoved, Standing

LEMMA ObserveMoves ==
  ASSUME RemovalInv, NEW p \in Passes, ~At(p, "idle"), NEW f, NEW pc \in PCs,
         Observe(p, f, pc),
         UNCHANGED <<plan, claim, slot, launch, vm, fip, rel, wire, hit, node>>,
         plan.late \/ (f.op \in AddressOps /\ f.phase \notin {"none", "observed"}
                          => Releasable(p, f.op)),
         Ordered(pc, pass[p].fip), plan.late \/ JournalFree(pc, Inactive),
         OneController /\ DetachInv => SlotFree(pc, pass[p].dt)
  PROVE  RemovalInv'
  <1>1. CASE Settled(p, pc) /\ UNCHANGED journal
    BY <1>1, Moves, Running, JournalUnmoved, SettledMoves DEF RemovalInv
  <1>2. CASE /\ f.phase \notin {"none", "observed"} /\ CanFinish(journal, f, "observed")
             /\ journal' = Finished(journal, "observed") /\ Settled(p, pc)
    <2>1. journal' \in Journals /\ (plan.late \/ JournalMoved(p))
      BY <1>2, FinishMoves, FinishedTypes DEF RemovalInv, CanFinish
    <2> QED
      BY <1>2, <2>1, Moves, Running, SettledMoves DEF RemovalInv
  <1>3. CASE Fail(p) /\ UNCHANGED journal
    BY <1>3, Fails
  <1> QED
    BY <1>1, <1>2, <1>3 DEF Observe

LEMMA RejectMoves ==
  ASSUME RemovalInv, NEW p \in Passes, ~At(p, "idle"), Reject(p),
         UNCHANGED <<plan, claim, slot, launch, vm, fip, rel, wire, hit, node>>,
         plan.late \/ (journal.op \in AddressOps /\ journal.phase = "issued"
                       /\ CanFinish(journal, pass[p].auth, "rejected") => Releasable(p, journal.op))
  PROVE  RemovalInv'
  <1>1. Becomes(p, "idle", FALSE, Inactive, NoDetach)
    BY FailMoves, Zenon DEF RemovalInv, Reject
  <1>2. Ordered("idle", FALSE) /\ JournalFree("idle", Inactive) /\ SlotFree("idle", NoDetach)
    BY DEF Ordered, AfterAddress, AfterVM, AfterRelation, JournalFree, SlotFree, NoDetach
  <1>3. journal' \in Journals /\ (plan.late \/ JournalMoved(p))
    <2>1. CASE UNCHANGED journal
      BY <2>1, JournalUnmoved DEF RemovalInv
    <2>2. CASE CanFinish(journal, pass[p].auth, "rejected") /\ journal' = Finished(journal, "rejected")
      BY <2>2, FinishMoves, FinishedTypes DEF RemovalInv
    <2> QED
      BY <2>1, <2>2 DEF Reject
  <1> QED
    BY <1>1, <1>2, <1>3, Running, Moves, Zenon

LEMMA IssueTypes ==
  ASSUME TypeInv, NEW op \in Ops
  PROVE  /\ Issue(journal, op) \in Journals
         /\ Issue(journal, op).op = op /\ Issue(journal, op).phase = "issued"
         /\ Issue(journal, op).issue = journal.issue + 1
  <1>1. ASSUME NEW n \in Nat
        PROVE  LET k == [journal EXCEPT !.op = op, !.phase = "issued", !.issue = n]
               IN  k \in Journals /\ k.op = op /\ k.phase = "issued" /\ k.issue = n
    BY Zenon DEF TypeInv, Journals, Ops
  <1>2. journal.issue + 1 \in Nat
    BY DEF TypeInv, Journals
  <1> QED
    BY <1>1, <1>2, Zenon DEF Issue

LEMMA FenceTypes ==
  ASSUME NEW j \in Journals
  PROVE  /\ Fence(j) \in Auths /\ Fence(j).op = j.op /\ Fence(j).issue = j.issue
         /\ [Fence(j) EXCEPT !.allow = TRUE] \in Auths
         /\ [Fence(j) EXCEPT !.allow = TRUE].op = j.op
         /\ [Fence(j) EXCEPT !.allow = TRUE].issue = j.issue
  BY Zenon DEF Journals, Fence, Auths, NoOp, Ops

LEMMA IssuesAlone ==
  ASSUME NEW op, MayIssue(journal, op)
  PROVE  \A o \in AddressOps : ~Standing(o)
  BY DEF MayIssue, Standing

LEMMA AuthorizeMoves ==
  ASSUME RemovalInv, NEW p \in Passes, ~At(p, "idle"), NEW op \in Ops,
         NEW issued \in PCs, NEW pending \in PCs, Authorize(p, op, issued, pending),
         UNCHANGED <<plan, claim, slot, launch, vm, fip, rel, wire, hit, node>>,
         op = "vm" => issued = "proveVM" /\ pending = "proveVM",
         op \in AddressOps => issued = ProvingAt(op) /\ pending = "address",
         op = "delete" => plan.late \/ fip # "assigned",
         Ordered(issued, pass[p].fip), Ordered(pending, pass[p].fip),
         OneController /\ DetachInv => SlotFree(issued, pass[p].dt) /\ SlotFree(pending, pass[p].dt)
  PROVE  RemovalInv'
  <1>0. Runs(p) /\ TypeInv /\ journal \in Journals /\ op \in AddressOps \cup {"vm"}
    BY Running DEF RemovalInv, TypeInv, AddressOps, Ops
  <1>1. CASE /\ MayIssue(journal, op) /\ journal' = Issue(journal, op)
             /\ pass' = [pass EXCEPT ![p].pc = issued,
                                     ![p].auth = [Fence(journal') EXCEPT !.allow = TRUE]]
    <2> DEFINE a == [Fence(journal') EXCEPT !.allow = TRUE]
    <2>1. /\ journal' \in Journals /\ Standing(op)' /\ journal'.issue = journal.issue + 1
          /\ journal'.op = op
      BY <1>0, <1>1, IssueTypes DEF Standing
    <2>2. a \in Auths /\ a.op = op /\ a.issue = journal'.issue
      BY <2>1, FenceTypes
    <2>3. \A o \in AddressOps : ~Standing(o)
      BY <1>1, IssuesAlone
    <2> HIDE DEF a
    <2>4. Becomes(p, issued, pass[p].fip, a, pass[p].dt)
      BY <1>0, <1>1, <2>2, AuthMoves, Zenon DEF a
    <2>5. CASE op = "vm"
      <3>1. JournalMoved(p) /\ JournalFree(issued, a)
        BY <2>1, <2>2, <2>3, <2>5 DEF JournalMoved, JournalFree
      <3> QED
        BY <1>0, <2>1, <2>4, <3>1, Moves
    <2>6. CASE op \in AddressOps
      <3>1. plan.late \/ JournalInv'
        BY <1>0, <2>1, <2>2, <2>3, <2>4, <2>6, JournalIssued DEF RemovalInv
      <3> QED
        BY <1>0, <2>1, <2>4, <3>1, MovesJournal DEF TypeInv
    <2> QED
      BY <1>0, <2>5, <2>6
  <1>2. CASE /\ Pending(journal, op) /\ UNCHANGED journal
             /\ pass' = [pass EXCEPT ![p].pc = pending, ![p].auth = Fence(journal)]
    <2>1. Fence(journal) \in Auths /\ Fence(journal).op = op
      BY <1>0, <1>2, FenceTypes, Zenon DEF Pending
    <2>2. Becomes(p, pending, pass[p].fip, Fence(journal), pass[p].dt)
      BY <1>0, <1>2, <2>1, AuthMoves, Zenon
    <2>3. JournalFree(pending, Fence(journal))
      BY <1>0, <2>1 DEF JournalFree
    <2> QED
      BY <1>0, <1>2, <2>2, <2>3, Moves, JournalUnmoved
  <1>3. CASE Fail(p) /\ UNCHANGED journal
    BY <1>3, Fails
  <1> QED
    BY <1>1, <1>2, <1>3 DEF Authorize

LEMMA AuthorizeStep ==
  ASSUME RemovalInv, NEW p \in Passes,
         Step(AuthorizeVM(p)) \/ Step(AddressAssigned(p)) \/ Step(AuthorizeDelete(p))
  PROVE  RemovalInv'
  <1>1. OneController /\ DetachInv /\ pass[p].pc \in {"authorizeVM", "address", "authorizeDelete"} =>
          \A pc \in {"proveVM", "proveUnassign", "proveDelete", "address"} : SlotFree(pc, pass[p].dt)
    BY Unmarked, Zenon DEF SlotFree, DetachInv, AfterVM
  <1>2. \A pc \in {"proveUnassign", "proveDelete", "address"} : Ordered(pc, pass[p].fip)
    BY DEF Ordered, AfterAddress, AfterVM, AfterRelation
  <1>a. /\ {"vm", "unassign", "delete"} \subseteq Ops
        /\ {"proveVM", "proveUnassign", "proveDelete", "address"} \subseteq PCs
        /\ "vm" \notin AddressOps
        /\ ProvingAt("unassign") = "proveUnassign" /\ ProvingAt("delete") = "proveDelete"
    BY DEF Ops, PCs, AddressOps, ProvingAt
  <1>3. CASE Step(AuthorizeVM(p))
    <2>1. /\ Authorize(p, "vm", "proveVM", "proveVM") /\ pass[p].pc = "authorizeVM"
          /\ UNCHANGED <<plan, claim, slot, launch, vm, fip, rel, wire, hit, node>>
      BY <1>3 DEF Step, AuthorizeVM, At, cloud
    <2>2. Ordered("proveVM", pass[p].fip)
      BY <2>1 DEF RemovalInv, OrderInv, Ordered, AfterAddress, AfterVM, AfterRelation
    <2>3. ~At(p, "idle") /\ (OneController /\ DetachInv => SlotFree("proveVM", pass[p].dt))
      BY <1>1, <2>1 DEF At
    <2> QED
      BY <1>a, <2>1, <2>2, <2>3, AuthorizeMoves
  <1>4. CASE Step(AddressAssigned(p))
    <2>1. /\ Authorize(p, "unassign", "proveUnassign", "address") /\ pass[p].pc = "address"
          /\ UNCHANGED <<plan, claim, slot, launch, vm, fip, rel, wire, hit, node>>
      BY <1>4 DEF Step, AddressAssigned, At, cloud
    <2>2. /\ ~At(p, "idle") /\ Ordered("proveUnassign", pass[p].fip) /\ Ordered("address", pass[p].fip)
          /\ OneController /\ DetachInv =>
                SlotFree("proveUnassign", pass[p].dt) /\ SlotFree("address", pass[p].dt)
      BY <1>1, <1>2, <2>1 DEF At
    <2> QED
      BY <1>a, <2>1, <2>2, AuthorizeMoves
  <1>5. CASE Step(AuthorizeDelete(p))
    <2>1. /\ Authorize(p, "delete", "proveDelete", "address") /\ pass[p].pc = "authorizeDelete"
          /\ UNCHANGED <<plan, claim, slot, launch, vm, fip, rel, wire, hit, node>>
      BY <1>5 DEF Step, AuthorizeDelete, At, cloud
    <2>2. plan.late \/ JournalInv
      BY Zenon DEF RemovalInv
    <2>3. plan.late \/ fip # "assigned"
      BY <2>1, <2>2, Zenon DEF JournalInv
    <2>4. /\ ~At(p, "idle") /\ Ordered("proveDelete", pass[p].fip) /\ Ordered("address", pass[p].fip)
          /\ OneController /\ DetachInv =>
                SlotFree("proveDelete", pass[p].dt) /\ SlotFree("address", pass[p].dt)
      BY <1>1, <1>2, <2>1 DEF At
    <2> QED
      BY <1>a, <2>1, <2>3, <2>4, AuthorizeMoves
  <1> QED
    BY <1>3, <1>4, <1>5

LEMMA ObserveStep ==
  ASSUME RemovalInv, NEW p \in Passes,
         Step(Absent(p)) \/ Step(AddressFree(p)) \/ Step(AddressGone(p)) \/ Step(ObserveDelete(p))
  PROVE  RemovalInv'
  <1>1. OneController /\ DetachInv /\ pass[p].pc \in {"absent", "address", "observeDelete"} =>
          \A pc \in {"address", "confirm", "authorizeDelete", "observeDelete"} : SlotFree(pc, pass[p].dt)
    BY Unmarked, Zenon DEF SlotFree, DetachInv, AfterVM
  <1> USE DEF Step, PCs, cloud, At
  <1>2. CASE Step(Absent(p))
    <2> DEFINE pc == IF pass[p].fip THEN "address" ELSE "confirm"
    <2>1. Ordered(pc, pass[p].fip) /\ JournalFree(pc, Inactive)
      BY <1>2, Zenon DEF Absent, RemovalInv, OrderInv, Ordered, AfterAddress, AfterVM, AfterRelation, JournalFree
    <2>2. plan.late \/ pass[p].auth.op \notin AddressOps \/ pass[p].auth.phase = "none"
      BY <1>2, Zenon DEF Absent, RemovalInv, JournalInv, AddressOps
    <2>3. OneController /\ DetachInv => SlotFree(pc, pass[p].dt)
      BY <1>1, <1>2, Zenon DEF Absent
    <2>4. pc \in PCs /\ Observe(p, pass[p].auth, pc)
      BY <1>2, Zenon DEF Absent
    <2> HIDE DEF pc
    <2> QED
      BY <1>2, <2>1, <2>2, <2>3, <2>4, ObserveMoves, Zenon DEF Absent
  <1>3. CASE Step(AddressFree(p))
    <2> DEFINE f == Recall(journal, "unassign")
    <2>1. Ordered("authorizeDelete", pass[p].fip) /\ JournalFree("authorizeDelete", Inactive)
      BY <1>3, Zenon DEF AddressFree, Ordered, AfterAddress, AfterVM, AfterRelation, JournalFree, Shown
    <2>2. plan.late \/ f.phase \in {"none", "observed"} \/ Releasable(p, "unassign")
      BY <1>3, Zenon DEF AddressFree, Quiet, Sending, Releasable, SendingAt, Expected, Shown
    <2>3. f.op = "unassign" \/ f.phase = "none"
      BY RecallTypes DEF RemovalInv, Ops, Inactive
    <2>4. Observe(p, f, "authorizeDelete") /\ At(p, "address")
      BY <1>3, Zenon DEF AddressFree
    <2> HIDE DEF f
    <2> QED
      BY <1>1, <1>3, <2>1, <2>2, <2>3, <2>4, ObserveMoves, Zenon DEF AddressFree
  <1>4. CASE Step(AddressGone(p))
    <2> DEFINE f == Recall(journal, "unassign")
    <2>1. Ordered("observeDelete", pass[p].fip) /\ JournalFree("observeDelete", Inactive)
      BY <1>4, Zenon DEF AddressGone, Ordered, AfterAddress, AfterVM, AfterRelation, JournalFree, Shown, AddressSettled
    <2>2. plan.late \/ Releasable(p, "unassign")
      BY <1>4, Zenon DEF AddressGone, Quiet, Sending, Releasable, SendingAt, Expected, Shown
    <2>3. f.op = "unassign" \/ f.phase = "none"
      BY RecallTypes DEF RemovalInv, Ops, Inactive
    <2>4. Observe(p, f, "observeDelete") /\ At(p, "address")
      BY <1>4 DEF AddressGone
    <2> HIDE DEF f
    <2> QED
      BY <1>1, <1>4, <2>1, <2>2, <2>3, <2>4, ObserveMoves, Zenon DEF AddressGone
  <1>5. CASE Step(ObserveDelete(p))
    <2> DEFINE f == Recall(journal, "delete")
    <2>0. At(p, "observeDelete") /\ AddressSettled
      BY <1>5, Zenon DEF ObserveDelete, RemovalInv, OrderInv, Ordered, AfterAddress
    <2>1. Ordered("confirm", pass[p].fip) /\ JournalFree("confirm", Inactive)
      BY <2>0 DEF Ordered, AfterAddress, AfterVM, AfterRelation, JournalFree, AddressSettled
    <2>2. plan.late \/ Releasable(p, "delete")
      BY <2>0, Zenon DEF RemovalInv, JournalInv, AddressOps, Releasable, SendingAt, Expected, AddressSettled
    <2>3. f.op = "delete" \/ f.phase = "none"
      BY RecallTypes DEF RemovalInv, Ops, Inactive
    <2>4. Observe(p, f, "confirm")
      BY <1>5, Zenon DEF ObserveDelete
    <2> HIDE DEF f
    <2> QED
      BY <1>1, <1>5, <2>0, <2>1, <2>2, <2>3, <2>4, ObserveMoves, Zenon DEF ObserveDelete
  <1> QED
    BY <1>2, <1>3, <1>4, <1>5

LEMMA GoesOn ==
  ASSUME RemovalInv, NEW p \in Passes, ~At(p, "idle"), NEW pc \in PCs, Goto(p, pc),
         UNCHANGED <<plan, claim, journal, slot, launch, vm, fip, rel, wire, hit, node>>,
         Ordered(pc, pass[p].fip), plan.late \/ JournalFree(pc, pass[p].auth),
         OneController /\ DetachInv => SlotFree(pc, pass[p].dt)
  PROVE  RemovalInv'
  BY GotoMoves, Running, Moves, JournalUnmoved DEF RemovalInv

LEMMA ProveVMStep ==
  ASSUME RemovalInv, NEW p \in Passes, Step(ProveVM(p))
  PROVE  RemovalInv'
  <1>1. /\ At(p, "proveVM") /\ ~At(p, "idle")
        /\ UNCHANGED <<plan, claim, slot, launch, vm, fip, rel, wire, hit, node>>
    BY DEF Step, ProveVM, At, cloud
  <1>2. plan.late \/ pass[p].auth.op = "vm" \/ pass[p].auth.phase = "none"
    BY <1>1, Zenon DEF RemovalInv, JournalInv, At
  <1>3. OneController /\ DetachInv => SlotFree("sendVM", pass[p].dt) /\ SlotFree("absent", pass[p].dt)
    BY <1>1, Unmarked, Zenon DEF SlotFree, DetachInv, At, AfterVM
  <1>4. Ordered("sendVM", pass[p].fip) /\ Ordered("absent", pass[p].fip)
    BY <1>1 DEF RemovalInv, OrderInv, Ordered, AfterAddress, AfterVM, AfterRelation, At
  <1>5. \A pc \in {"sendVM", "absent"} : plan.late \/ JournalFree(pc, pass[p].auth)
    BY <1>2 DEF JournalFree
  <1>6. CASE \E pc \in {"sendVM", "absent"} : Goto(p, pc) /\ UNCHANGED journal
    BY <1>1, <1>3, <1>4, <1>5, <1>6, GoesOn DEF PCs
  <1>7. CASE Reject(p)
    BY <1>1, <1>2, <1>7, RejectMoves, Zenon DEF CanFinish, AddressOps
  <1> QED
    BY <1>6, <1>7 DEF Step, ProveVM

LEMMA SendVMStep ==
  ASSUME RemovalInv, NEW p \in Passes, Step(SendVM(p))
  PROVE  RemovalInv'
  <1>1. /\ At(p, "sendVM") /\ ~At(p, "idle") /\ Goto(p, "absent") /\ wire' = wire \cup {"vm"}
        /\ UNCHANGED <<plan, claim, journal, slot, launch, vm, fip, rel, hit, node>>
    BY DEF Step, SendVM, Send, At, cloud
  <1>2. Becomes(p, "absent", pass[p].fip, pass[p].auth, pass[p].dt)
    BY <1>1, GotoMoves DEF RemovalInv, PCs
  <1>3. Ordered("absent", pass[p].fip) /\ (OneController /\ DetachInv => SlotFree("absent", pass[p].dt))
    BY <1>1, Unmarked, Zenon DEF RemovalInv, OrderInv, Ordered, AfterAddress, AfterVM, AfterRelation, At,
                          SlotFree, DetachInv
  <1>4. plan.late \/ JournalFree("absent", pass[p].auth)
    BY <1>1, Zenon DEF RemovalInv, JournalInv, JournalFree, At
  <1>5. plan.late \/ JournalInv'
    <2>1. \A op \in AddressOps : op \in wire' <=> op \in wire
      BY <1>1 DEF AddressOps
    <2> QED
      BY <1>1, <1>2, <1>4, <2>1, JournalMoves, JournalUnmoved DEF RemovalInv
  <1>6. wire' \in SUBSET Requests /\ \A r \in {"assign", "detach"} : r \in wire' => r \in wire
    BY <1>1 DEF RemovalInv, TypeInv, Requests
  <1> QED
    BY <1>1, <1>2, <1>3, <1>5, <1>6, Running, MovesJournal, JournalUnmoved DEF RemovalInv

LEMMA ProveAddressStep ==
  ASSUME RemovalInv, NEW p \in Passes, NEW op \in AddressOps, Step(ProveAddress(p, op, Expected(op)))
  PROVE  RemovalInv'
  <1>0. Proving[op] = ProvingAt(op) /\ Sending[op] = SendingAt(op) /\ SendingAt(op) \in PCs
    BY DEF AddressOps, Proving, Sending, ProvingAt, SendingAt, PCs
  <1>1. /\ At(p, ProvingAt(op)) /\ ~At(p, "idle")
        /\ UNCHANGED <<plan, claim, slot, launch, vm, fip, rel, wire, hit, node>>
    BY <1>0, Zenon DEF Step, ProveAddress, At, cloud, ProvingAt
  <1>2. CASE fip = Expected(op) /\ Goto(p, SendingAt(op)) /\ UNCHANGED journal
    <2>1. Becomes(p, SendingAt(op), pass[p].fip, pass[p].auth, pass[p].dt)
      BY <1>0, <1>2, GotoMoves, Zenon DEF RemovalInv
    <2>2. Ordered(SendingAt(op), pass[p].fip)
      BY DEF Ordered, AfterAddress, AfterVM, AfterRelation, SendingAt
    <2>3. OneController /\ DetachInv => SlotFree(SendingAt(op), pass[p].dt)
      BY <1>1, Unmarked, Zenon DEF SlotFree, DetachInv, At, AfterVM, SendingAt, ProvingAt
    <2>4. plan.late \/ JournalInv'
      BY <1>1, <1>2, <2>1, JournalProved DEF RemovalInv
    <2> QED
      BY <1>1, <1>2, <2>1, <2>2, <2>3, <2>4, Running, MovesJournal, JournalUnmoved, Zenon DEF RemovalInv, TypeInv
  <1>3. CASE Reject(p)
    <2>1. plan.late \/ (CanFinish(journal, pass[p].auth, "rejected") => Releasable(p, journal.op))
      <3> SUFFICES ASSUME ~plan.late, CanFinish(journal, pass[p].auth, "rejected")
                   PROVE  Releasable(p, journal.op)
        OBVIOUS
      <3>1. JournalInv
        BY DEF RemovalInv
      <3>2. journal.op = op /\ journal.issue = pass[p].auth.issue
        BY <1>1, <3>1, Zenon DEF JournalInv, CanFinish
      <3>3. /\ op \notin wire /\ \A q \in Passes : ~At(q, SendingAt(op))
            /\ \A q \in Passes : At(q, ProvingAt(op)) /\ pass[q].auth.issue = journal.issue => q = p
        BY <1>1, <3>1, <3>2, Zenon DEF JournalInv
      <3>4. \A q \in Passes : At(q, ProvingAt(op)) /\ fip = Expected(op) => q = p
        BY <3>1, <3>3, Zenon DEF JournalInv
      <3> QED
        BY <3>2, <3>3, <3>4, Zenon DEF Releasable
    <2> QED
      BY <1>1, <1>3, <2>1, RejectMoves
  <1> QED
    BY <1>0, <1>2, <1>3 DEF Step, ProveAddress, RemovalTarget, Shown

LEMMA SendAddressStep ==
  ASSUME RemovalInv, NEW p \in Passes, NEW op \in AddressOps, Step(SendAddress(p, op))
  PROVE  RemovalInv'
  <1>1. /\ At(p, SendingAt(op)) /\ ~At(p, "idle") /\ Settled(p, "address") /\ wire' = wire \cup {op}
        /\ UNCHANGED <<plan, claim, journal, slot, launch, vm, fip, rel, hit, node>>
    BY DEF Step, SendAddress, Send, At, cloud, AddressOps, Sending, SendingAt
  <1>2. Becomes(p, "address", pass[p].fip, Inactive, pass[p].dt)
    BY <1>1, SettledMoves DEF RemovalInv, PCs
  <1>3. Ordered("address", pass[p].fip) /\ (OneController /\ DetachInv => SlotFree("address", pass[p].dt))
    BY <1>1, Unmarked, Zenon DEF Ordered, AfterAddress, AfterVM, AfterRelation, At, SlotFree, DetachInv, SendingAt
  <1>4. plan.late \/ JournalInv'
    BY <1>1, <1>2, JournalSent DEF RemovalInv
  <1>5. wire' \in SUBSET Requests /\ \A r \in {"assign", "detach"} : r \in wire' => r \in wire
    BY <1>1 DEF RemovalInv, TypeInv, Requests, AddressOps
  <1> QED
    BY <1>1, <1>2, <1>3, <1>4, <1>5, Running, MovesJournal, JournalUnmoved DEF RemovalInv

LEMMA ConfirmStep ==
  ASSUME RemovalInv, NEW p \in Passes, Step(Confirm(p)) \/ Step(AddressTaken(p)) \/ Step(Abandon(p))
  PROVE  RemovalInv'
  <1>1. CASE Step(Confirm(p))
    <2>1. /\ At(p, "confirm") /\ Goto(p, "detach") /\ vm = "gone"
          /\ UNCHANGED <<plan, claim, journal, slot, launch, vm, fip, rel, wire, hit, node>>
      BY <1>1 DEF Step, Confirm, VMAbsent, cloud
    <2>2. Ordered("detach", pass[p].fip) /\ JournalFree("detach", pass[p].auth)
      BY <2>1 DEF RemovalInv, OrderInv, Ordered, AfterAddress, AfterRelation, At, JournalFree
    <2>3. OneController /\ DetachInv => SlotFree("detach", pass[p].dt)
      BY <2>1, Unmarked, Zenon DEF SlotFree, DetachInv, At, AfterVM
    <2> QED
      BY <2>1, <2>2, <2>3, GoesOn, Zenon DEF PCs, At
  <1>2. CASE Step(AddressTaken(p))
    BY <1>2, Fails DEF Step, AddressTaken, At, cloud
  <1>3. CASE Step(Abandon(p))
    BY <1>3, Fails DEF Step, Abandon, cloud
  <1> QED
    BY <1>1, <1>2, <1>3

-----------------------------------------------------------------------------
(* The firewall relation. *)

LEMMA MovesSlot ==
  ASSUME RemovalInv, NEW p \in Passes, NEW pc, NEW f, NEW a, NEW d,
         Becomes(p, pc, f, a, d), Runs(p),
         UNCHANGED <<plan, journal, launch, vm, fip, rel, hit>>,
         claim' \in Claims, slot' \in Slots, wire' \in SUBSET Requests,
         \A op \in AddressOps : op \in wire' <=> op \in wire,
         Ordered(pc, f), FinalizerLast', JournalFree(pc, a),
         OneController /\ LaunchInv /\ DetachInv => LaunchInv' /\ DetachInv'
  PROVE  RemovalInv'
  <1>1. TypeInv'
    BY DEF RemovalInv, TypeInv, Becomes
  <1>2. OrderInv'
    BY OrderMoves DEF RemovalInv
  <1>3. (plan.late \/ JournalInv)'
    BY JournalMoves, JournalUnmoved DEF RemovalInv
  <1>4. SlotInv'
    BY DEF RemovalInv, SlotInv, OneController
  <1> QED
    BY <1>1, <1>2, <1>3, <1>4 DEF RemovalInv

LEMMA DetachAt ==
  ASSUME RemovalInv, OneController, DetachInv, NEW p \in Passes, NEW pc, NEW f, NEW a, NEW d,
         Becomes(p, pc, f, a, d), Runs(p),
         "detach" \in wire' => Detaching',
         claim'.marker \/ ~claim'.term => "detach" \notin wire' /\ pc \in {"idle", "enter", "returned"},
         ~claim'.term => pc = "idle", claim'.term => claim'.exists,
         pc \in {"proveDetach", "sendDetach"} => Detaching' /\ slot'.issue = d.issue /\ d.held,
         pc = "detach" /\ d.fresh /\ ~d.sent => Detaching' /\ slot'.issue = d.issue,
         pc \in {"detach", "proveDetach", "sendDetach"} /\ d.fresh /\ ~d.sent => "detach" \notin wire',
         pc \in AfterRelation => "detach" \notin wire',
         pc \notin AfterVM => ~d.fresh
  PROVE  DetachInv'
  <1>1. \A q \in Passes : q # p => pass[q].pc = "idle" /\ pass'[q] = pass[q]
    BY Alone DEF Becomes, RemovalInv, At
  <1>2. \A q \in Passes : q # p => ~pass'[q].dt.fresh
    BY <1>1, Zenon DEF DetachInv, AfterVM
  <1>3. pass'[p].pc = pc /\ pass'[p].dt = d
    BY DEF Becomes
  <1>4. \A q \in Passes :
          /\ pass'[q].pc \in {"proveDetach", "sendDetach"} =>
                Detaching' /\ slot'.issue = pass'[q].dt.issue /\ pass'[q].dt.held
          /\ pass'[q].pc = "detach" /\ pass'[q].dt.fresh /\ ~pass'[q].dt.sent =>
                Detaching' /\ slot'.issue = pass'[q].dt.issue
          /\ pass'[q].pc \in {"detach", "proveDetach", "sendDetach"}
             /\ pass'[q].dt.fresh /\ ~pass'[q].dt.sent => "detach" \notin wire'
          /\ pass'[q].pc \in AfterRelation => "detach" \notin wire'
          /\ pass'[q].pc \notin AfterVM => ~pass'[q].dt.fresh
    BY <1>1, <1>2, <1>3, Zenon DEF AfterRelation
  <1>5. /\ claim'.marker \/ ~claim'.term =>
             \A q \in Passes : pass'[q].pc \in {"idle", "enter", "returned"}
        /\ ~claim'.term => \A q \in Passes : pass'[q].pc = "idle"
    BY <1>1, <1>3, Zenon
  <1> QED
    BY <1>4, <1>5, Zenon DEF DetachInv, FirstDispatch, At

LEMMA AuthorizeDetachMoves ==
  ASSUME RemovalInv, NEW p \in Passes, NEW pc \in {"detach", "observeDetach"},
         At(p, "detach"), ~pass[p].dt.held, AuthorizeDetach(p, pc),
         UNCHANGED <<plan, claim, journal, launch, vm, fip, rel, wire, hit, node>>,
         Ordered(pc, pass[p].fip),
         pc = "observeDetach" => plan.late \/ "detach" \notin wire
  PROVE  RemovalInv'
  <1> DEFINE d == [pass[p].dt EXCEPT !.held = TRUE, !.phase = slot.phase, !.issue = slot.issue]
             e == [pass[p].dt EXCEPT !.held = TRUE, !.fresh = (pc = "detach"), !.phase = "issued",
                                     !.issue = slot'.issue]
  <1>0. /\ TypeInv /\ ~At(p, "idle") /\ Runs(p) /\ pc \in PCs /\ slot.issue \in Nat /\ slot.issue + 1 \in Nat
        /\ JournalFree(pc, pass[p].auth) /\ FinalizerLast'
    BY Running, FinalizerStays DEF RemovalInv, TypeInv, Slots, At, PCs, JournalFree
  <1>1. CASE /\ Owns(slot, "target", "detach") /\ slot.phase \in {"issued", "observed"}
             /\ pass' = [pass EXCEPT ![p].pc = pc, ![p].dt = d] /\ UNCHANGED slot
    <2>1. d \in Detaches /\ d.issue = slot.issue /\ d.fresh = pass[p].dt.fresh /\ d.sent = pass[p].dt.sent
      BY <1>0, <1>1, Fields, Zenon DEF Detaches
    <2> HIDE DEF d
    <2>2. Becomes(p, pc, pass[p].fip, pass[p].auth, d)
      BY <1>0, <1>1, <2>1, DetachMoves, Zenon
    <2>3. ASSUME OneController, LaunchInv, DetachInv PROVE LaunchInv' /\ DetachInv'
      <3>1. ~claim.marker /\ claim.term /\ claim.exists
        BY <2>3, Unmarked DEF At
      <3>2. "detach" \in wire' => Detaching'
        BY <1>1, <2>3 DEF DetachInv, Detaching
      <3>3. pass[p].dt.fresh /\ ~pass[p].dt.sent => Detaching' /\ "detach" \notin wire'
        BY <1>1, <2>3 DEF DetachInv, Detaching, FirstDispatch, At
      <3>4. DetachInv'
        BY <1>0, <1>1, <2>1, <2>2, <2>3, <3>1, <3>2, <3>3, DetachAt DEF OneController, AfterRelation, AfterVM
      <3> QED
        BY <1>1, <2>3, <3>4, LaunchStays
    <2> QED
      BY <1>0, <1>1, <2>2, <2>3, MovesSlot DEF TypeInv
  <1>2. CASE /\ ~(Owns(slot, "target", "detach") /\ slot.phase \in {"issued", "observed"})
             /\ claim.exists
             /\ IF slot.owner = "target" THEN TargetSlotSettled ELSE LaunchSlotSettled
             /\ slot' = Taken("target", "detach", slot.issue + 1)
             /\ pass' = [pass EXCEPT ![p].pc = pc, ![p].dt = e]
    <2>1. slot' \in Slots /\ Detaching' /\ slot'.issue \in Nat
      BY <1>0, <1>2 DEF Taken, Slots, Detaching
    <2>2. e \in Detaches /\ e.issue = slot'.issue /\ e.held /\ e.fresh = (pc = "detach")
          /\ e.sent = pass[p].dt.sent
      BY <1>0, <2>1, Fields, Zenon DEF Detaches
    <2> HIDE DEF e
    <2>3. Becomes(p, pc, pass[p].fip, pass[p].auth, e)
      BY <1>0, <1>2, <2>2, DetachMoves, Zenon
    <2>4. ASSUME OneController, LaunchInv, DetachInv PROVE LaunchInv' /\ DetachInv'
      <3>1. ~claim.marker /\ claim.term /\ claim.exists
        BY <2>4, Unmarked DEF At
      <3>2. "detach" \notin wire' /\ ~Assigning
        BY <1>2, <2>4 DEF DetachInv, Detaching, Owns, Assigning, LaunchSlotSettled, Terminal
      <3>3. DetachInv'
        BY <1>0, <2>2, <2>3, <2>1, <2>4, <3>1, <3>2, DetachAt, Zenon DEF AfterRelation, AfterVM
      <3> QED
        BY <2>4, <3>2, <3>3, LaunchApart
    <2> QED
      BY <1>0, <2>3, <2>1, <2>4, MovesSlot, Zenon DEF TypeInv
  <1>3. CASE Fail(p) /\ UNCHANGED slot
    BY <1>0, <1>3, Fails
  <1>4. \/ /\ Owns(slot, "target", "detach") /\ slot.phase \in {"issued", "observed"}
           /\ pass' = [pass EXCEPT ![p].pc = pc, ![p].dt = d] /\ UNCHANGED slot
        \/ /\ ~(Owns(slot, "target", "detach") /\ slot.phase \in {"issued", "observed"})
           /\ claim.exists
           /\ IF slot.owner = "target" THEN TargetSlotSettled ELSE LaunchSlotSettled
           /\ slot' = Taken("target", "detach", slot.issue + 1)
           /\ pass' = [pass EXCEPT ![p].pc = pc, ![p].dt = e]
        \/ Fail(p) /\ UNCHANGED slot
    BY DEF AuthorizeDetach
  <1> HIDE DEF d, e
  <1> QED
    BY <1>1, <1>2, <1>3, <1>4

LEMMA FoundStep ==
  ASSUME RemovalInv, NEW p \in Passes, Step(DetachFound(p)) \/ Step(DetachGone(p))
  PROVE  RemovalInv'
  <1>1. /\ At(p, "detach") /\ ~At(p, "idle")
        /\ UNCHANGED <<plan, claim, journal, launch, vm, fip, rel, wire, hit, node>>
    BY Zenon DEF Step, DetachFound, DetachGone, At, cloud
  <1>2. Ordered("detach", pass[p].fip) /\ ("target" \notin rel => Ordered("observeDetach", pass[p].fip))
    BY <1>1, Zenon DEF RemovalInv, OrderInv, Ordered, At, AfterAddress, AfterVM, AfterRelation
  <1>3. CASE Step(DetachFound(p))
    BY <1>1, <1>2, <1>3, AuthorizeDetachMoves DEF Step, DetachFound
  <1>4. CASE Step(DetachGone(p))
    <2>1. "target" \notin rel /\ (plan.late \/ "detach" \notin wire)
      BY <1>4 DEF Step, DetachGone, RelationShown, Quiet
    <2>2. CASE Goto(p, "observeDetach") /\ UNCHANGED slot
      <3>1. Becomes(p, "observeDetach", pass[p].fip, pass[p].auth, pass[p].dt)
        BY <2>2, GotoMoves DEF RemovalInv, PCs
      <3>2. ASSUME OneController, LaunchInv, DetachInv PROVE LaunchInv' /\ DetachInv'
        <4>1. ~claim.marker /\ claim.term /\ claim.exists
          BY <1>1, <3>2, Unmarked DEF At
        <4>2. DetachInv'
          BY <1>1, <2>1, <2>2, <3>1, <3>2, <4>1, Running, DetachAt, Zenon DEF OneController, AfterRelation, AfterVM
        <4> QED
          BY <1>1, <2>2, <3>2, <4>2, LaunchStays
      <3> QED
        BY <1>1, <1>2, <2>1, <2>2, <3>1, <3>2, Running, FinalizerStays, MovesSlot, Zenon
        DEF RemovalInv, TypeInv, JournalFree
    <2>3. CASE ~pass[p].dt.held /\ AuthorizeDetach(p, "observeDetach")
      BY <1>1, <1>2, <2>1, <2>3, AuthorizeDetachMoves
    <2> QED
      BY <1>4, <2>2, <2>3 DEF Step, DetachGone
  <1> QED
    BY <1>3, <1>4

LEMMA DispatchStep ==
  ASSUME RemovalInv, NEW p \in Passes, Step(DetachDispatch(p))
  PROVE  RemovalInv'
  <1>1. /\ At(p, "detach") /\ ~At(p, "idle") /\ pass[p].dt.held
        /\ UNCHANGED <<plan, claim, journal, slot, launch, vm, fip, rel, wire, hit, node>>
    BY Zenon DEF Step, DetachDispatch, At, cloud
  <1>2. CASE /\ Goto(p, "proveDetach")
             /\ FirstDispatch(p) \/ (Owns(slot, "target", "detach") /\ slot.phase = "issued"
                                     /\ slot.issue = pass[p].dt.issue)
    <2>1. Becomes(p, "proveDetach", pass[p].fip, pass[p].auth, pass[p].dt)
      BY <1>2, GotoMoves, Zenon DEF RemovalInv, PCs
    <2>2. Ordered("proveDetach", pass[p].fip) /\ JournalFree("proveDetach", pass[p].auth)
      BY <1>1 DEF RemovalInv, OrderInv, Ordered, At, AfterAddress, AfterVM, AfterRelation, JournalFree
    <2>3. ASSUME OneController, LaunchInv, DetachInv PROVE LaunchInv' /\ DetachInv'
      <3>1. ~claim.marker /\ claim.term /\ claim.exists
        BY <1>1, <2>3, Unmarked DEF At
      <3>2. Detaching' /\ slot'.issue = pass[p].dt.issue
        BY <1>1, <1>2, <2>3, <3>1, Zenon DEF DetachInv, Detaching, Owns, At
      <3>3. FirstDispatch(p) => "detach" \notin wire
        BY <1>1, <2>3, Zenon DEF DetachInv, At
      <3>4. DetachInv'
        BY <1>1, <1>2, <2>1, <2>3, <3>1, <3>2, <3>3, Running, DetachAt, Zenon DEF FirstDispatch, AfterRelation, AfterVM
      <3> QED
        BY <1>1, <2>3, <3>4, LaunchStays
    <2> QED
      BY <1>1, <2>1, <2>2, <2>3, Running, FinalizerStays, MovesSlot, Zenon DEF RemovalInv, TypeInv
  <1>3. CASE Fail(p)
    BY <1>1, <1>3, Fails
  <1> QED
    BY <1>2, <1>3, Zenon DEF Step, DetachDispatch

LEMMA SlotFinishedTypes ==
  ASSUME TypeInv, NEW owner, NEW op, NEW issue, NEW terminal \in {"observed", "rejected", "issued"}
  PROVE  SlotFinished(slot, owner, op, issue, terminal) \in Slots
  BY DEF TypeInv, SlotFinished, Slots

LEMMA ProveDetachStep ==
  ASSUME RemovalInv, NEW p \in Passes, Step(ProveDetach(p))
  PROVE  RemovalInv'
  <1>1. /\ At(p, "proveDetach") /\ ~At(p, "idle") /\ TypeInv
        /\ UNCHANGED <<plan, claim, journal, launch, vm, fip, rel, wire, hit, node>>
    BY DEF Step, ProveDetach, At, cloud, RemovalInv
  <1>2. OneController /\ DetachInv =>
          /\ ~claim.marker /\ claim.term /\ claim.exists
          /\ Detaching /\ slot.issue = pass[p].dt.issue /\ pass[p].dt.held
          /\ FirstDispatch(p) => "detach" \notin wire
    BY <1>1, Unmarked, Zenon DEF DetachInv, At
  <1>3. CASE Goto(p, "sendDetach") /\ UNCHANGED slot
    <2>1. Becomes(p, "sendDetach", pass[p].fip, pass[p].auth, pass[p].dt)
      BY <1>3, GotoMoves DEF RemovalInv, PCs
    <2>2. Ordered("sendDetach", pass[p].fip) /\ JournalFree("sendDetach", pass[p].auth)
      BY <1>1, Zenon DEF RemovalInv, OrderInv, Ordered, At, AfterAddress, AfterVM, AfterRelation, JournalFree
    <2>3. ASSUME OneController, LaunchInv, DetachInv PROVE LaunchInv' /\ DetachInv'
      <3>1. Detaching'
        BY <1>1, <1>2, <1>3, <2>3 DEF Detaching
      <3>2. DetachInv'
        BY <1>1, <1>2, <1>3, <2>1, <2>3, <3>1, Running, DetachAt, Zenon DEF FirstDispatch, AfterRelation, AfterVM
      <3> QED
        BY <1>1, <1>3, <2>3, <3>2, LaunchStays
    <2> QED
      BY <1>1, <1>3, <2>1, <2>2, <2>3, Running, FinalizerStays, MovesSlot, Zenon DEF RemovalInv, TypeInv
  <1>4. CASE RejectDetach(p)
    <2>1. Becomes(p, "idle", FALSE, Inactive, NoDetach)
      BY <1>4, FailMoves, Zenon DEF RemovalInv, RejectDetach
    <2>2. Ordered("idle", FALSE) /\ JournalFree("idle", Inactive) /\ ~NoDetach.fresh
      BY DEF Ordered, AfterAddress, AfterVM, AfterRelation, JournalFree, NoDetach
    <2>3. slot' \in Slots
      BY <1>1, <1>4, SlotFinishedTypes DEF RejectDetach, TypeInv
    <2>4. ASSUME OneController, LaunchInv, DetachInv PROVE LaunchInv' /\ DetachInv'
      <3>1. "detach" \in wire' => Detaching'
        BY <1>1, <1>2, <1>4, <2>4, Zenon DEF RejectDetach, Detaching
      <3>2. DetachInv'
        BY <1>1, <1>2, <2>1, <2>2, <2>4, <3>1, Running, DetachAt, Zenon DEF AfterRelation, AfterVM
      <3>3. ~Assigning
        BY <1>2, <2>4 DEF Detaching, Assigning
      <3> QED
        BY <1>1, <2>4, <3>2, <3>3, LaunchApart
    <2> QED
      BY <1>1, <2>1, <2>2, <2>3, <2>4, Running, FinalizerStays, MovesSlot, Zenon DEF RemovalInv, TypeInv
  <1> QED
    BY <1>3, <1>4 DEF Step, ProveDetach

LEMMA SendDetachStep ==
  ASSUME RemovalInv, NEW p \in Passes, Step(SendDetach(p))
  PROVE  RemovalInv'
  <1> DEFINE d == [pass[p].dt EXCEPT !.sent = TRUE]
  <1>1. /\ At(p, "sendDetach") /\ ~At(p, "idle") /\ TypeInv /\ wire' = wire \cup {"detach"}
        /\ UNCHANGED <<plan, claim, journal, slot, launch, vm, fip, rel, hit, node>>
    BY DEF Step, SendDetach, Send, At, cloud, RemovalInv
  <1>2. d \in Detaches /\ d.sent
    BY <1>1, Fields, Zenon DEF Detaches
  <1>3. pass' = [pass EXCEPT ![p].pc = "detach", ![p].dt = d]
    <2>1. pass \in [Passes -> Locals]
      BY <1>1 DEF TypeInv
    <2> QED
      BY <2>1 DEF Step, SendDetach, Locals
  <1> HIDE DEF d
  <1>4. Becomes(p, "detach", pass[p].fip, pass[p].auth, d)
    BY <1>1, <1>2, <1>3, DetachMoves, Zenon DEF PCs
  <1>5. Ordered("detach", pass[p].fip) /\ JournalFree("detach", pass[p].auth)
    BY <1>1, Zenon DEF RemovalInv, OrderInv, Ordered, At, AfterAddress, AfterVM, AfterRelation, JournalFree
  <1>6. wire' \in SUBSET Requests /\ \A op \in AddressOps : op \in wire' <=> op \in wire
    BY <1>1 DEF TypeInv, Requests, AddressOps
  <1>7. ASSUME OneController, LaunchInv, DetachInv PROVE LaunchInv' /\ DetachInv'
    <2>1. ~claim.marker /\ claim.term /\ claim.exists /\ Detaching
      BY <1>1, <1>7, Unmarked, Zenon DEF DetachInv, At
    <2>2. Detaching'
      BY <1>1, <2>1 DEF Detaching
    <2>3. DetachInv'
      BY <1>1, <1>2, <1>4, <1>7, <2>1, <2>2, Running, DetachAt, Zenon DEF AfterRelation, AfterVM
    <2> QED
      BY <1>1, <1>7, <2>3, LaunchStays
  <1> QED
    BY <1>1, <1>4, <1>5, <1>6, <1>7, Running, FinalizerStays, MovesSlot, Zenon DEF RemovalInv, TypeInv

LEMMA ObserveDetachStep ==
  ASSUME RemovalInv, NEW p \in Passes, Step(ObserveDetach(p))
  PROVE  RemovalInv'
  <1>1. /\ At(p, "observeDetach") /\ ~At(p, "idle") /\ TypeInv /\ Goto(p, "converged")
        /\ UNCHANGED <<plan, claim, journal, launch, vm, fip, rel, wire, hit, node>>
    BY Zenon DEF Step, ObserveDetach, At, cloud, RemovalInv
  <1>2. slot' = slot \/ slot' = SlotFinished(slot, "target", "detach", pass[p].dt.issue, "observed")
    BY DEF Step, ObserveDetach
  <1>3. slot' \in Slots
    BY <1>1, <1>2, SlotFinishedTypes DEF TypeInv
  <1>4. Becomes(p, "converged", pass[p].fip, pass[p].auth, pass[p].dt)
    BY <1>1, GotoMoves DEF PCs
  <1>5. Ordered("converged", pass[p].fip) /\ JournalFree("converged", pass[p].auth)
    BY <1>1, Zenon DEF RemovalInv, OrderInv, Ordered, At, AfterAddress, AfterVM, AfterRelation, JournalFree
  <1>6. ASSUME OneController, LaunchInv, DetachInv PROVE LaunchInv' /\ DetachInv'
    <2>1. ~claim.marker /\ claim.term /\ claim.exists /\ "detach" \notin wire
      BY <1>1, <1>6, Unmarked, Zenon DEF DetachInv, At, AfterRelation
    <2>2. DetachInv'
      BY <1>1, <1>4, <1>6, <2>1, Running, DetachAt, Zenon DEF AfterRelation, AfterVM
    <2>3. LaunchInv'
      <3>1. CASE slot' = slot
        BY <1>1, <1>6, <3>1, LaunchStays
      <3>2. CASE slot' # slot
        <4>1. ~Assigning
          BY <1>2, <3>2 DEF SlotFinished, Owns, Assigning
        <4> QED
          BY <1>1, <1>6, <4>1, LaunchApart
      <3> QED
        BY <3>1, <3>2
    <2> QED
      BY <2>2, <2>3
  <1> QED
    BY <1>1, <1>3, <1>4, <1>5, <1>6, Running, FinalizerStays, MovesSlot, Zenon DEF RemovalInv, TypeInv

LEMMA ConvergedStep ==
  ASSUME RemovalInv, NEW p \in Passes, Step(Converged(p))
  PROVE  RemovalInv'
  <1>1. /\ At(p, "converged") /\ ~At(p, "idle") /\ TypeInv /\ Goto(p, "returned")
        /\ claim' = claim \/ claim' = [claim EXCEPT !.marker = claim.exists]
        /\ UNCHANGED <<plan, journal, slot, launch, vm, fip, rel, wire, hit, node>>
    BY DEF Step, Converged, At, cloud, RemovalInv
  <1>2. /\ claim' \in Claims /\ claim'.term = claim.term /\ claim'.exists = claim.exists
        /\ claim'.marker => claim.marker \/ claim.exists
    BY <1>1 DEF TypeInv, Claims
  <1>3. Becomes(p, "returned", pass[p].fip, pass[p].auth, pass[p].dt)
    BY <1>1, GotoMoves DEF PCs
  <1>4. Ordered("returned", pass[p].fip) /\ JournalFree("returned", pass[p].auth)
        /\ vm = "gone" /\ fip \in {"none", "other"} /\ "target" \notin rel
    BY <1>1 DEF RemovalInv, OrderInv, Ordered, At, AfterAddress, AfterVM, AfterRelation, JournalFree,
                AddressSettled
  <1>5. FinalizerLast'
    BY <1>1, <1>2, <1>4 DEF RemovalInv, OrderInv, FinalizerLast
  <1>6. ASSUME OneController, LaunchInv, DetachInv PROVE LaunchInv' /\ DetachInv'
    <2>1. ~claim.marker /\ claim.term /\ claim.exists /\ "detach" \notin wire
      BY <1>1, <1>6, Unmarked DEF DetachInv, At, AfterRelation
    <2>2. DetachInv'
      BY <1>1, <1>2, <1>3, <1>6, <2>1, Running, DetachAt DEF AfterRelation, AfterVM
    <2> QED
      BY <1>1, <1>6, <2>2, LaunchStays
  <1> QED
    BY <1>1, <1>2, <1>3, <1>4, <1>5, <1>6, Running, MovesSlot, Zenon DEF RemovalInv, TypeInv

-----------------------------------------------------------------------------
(* The controllers. *)

LEMMA Stays ==
  ASSUME RemovalInv, UNCHANGED <<plan, journal, slot, launch, vm, fip, rel, hit, pass>>,
         wire' \subseteq wire, claim' \in Claims, SameClaim, FinalizerLast'
  PROVE  RemovalInv'
  <1>1. TypeInv'
    BY DEF RemovalInv, TypeInv
  <1>2. OrderInv'
    BY OrderStays DEF RemovalInv
  <1>3. (plan.late \/ JournalInv)'
    BY JournalStays DEF RemovalInv
  <1>4. SlotInv'
    BY SlotKept, LaunchStays, DetachStays DEF RemovalInv
  <1> QED
    BY <1>1, <1>2, <1>3, <1>4 DEF RemovalInv

LEMMA BeginStep ==
  ASSUME RemovalInv, LifecycleDelete \/ RecoveryAudit
  PROVE  RemovalInv'
  <1>1. PICK p \in Passes :
          /\ Runs(p) /\ claim.term /\ At(p, "idle") /\ Goto(p, "enter")
          /\ UNCHANGED <<plan, claim, journal, slot, launch, vm, fip, rel, wire, hit, node>>
    <2>1. CASE LifecycleDelete
      BY <2>1 DEF LifecycleDelete, Runs, Passes, Eligible, others
    <2>2. CASE RecoveryAudit
      BY <2>2 DEF RecoveryAudit, RecoveryIdle, Runs, Passes, Eligible, others
    <2> QED
      BY <2>1, <2>2
  <1>2. Becomes(p, "enter", pass[p].fip, pass[p].auth, pass[p].dt)
    BY <1>1, GotoMoves DEF RemovalInv, PCs
  <1>3. Ordered("enter", pass[p].fip) /\ JournalFree("enter", pass[p].auth)
    BY DEF Ordered, AfterAddress, AfterVM, AfterRelation, JournalFree
  <1>4. OneController /\ DetachInv => SlotFree("enter", pass[p].dt)
    BY <1>1, Zenon DEF SlotFree, DetachInv, At, AfterVM
  <1> QED
    BY <1>1, <1>2, <1>3, <1>4, Moves, JournalUnmoved DEF RemovalInv

LEMMA FinalizeMoves ==
  ASSUME RemovalInv, NEW p \in Passes, At(p, "returned"), Fail(p),
         UNCHANGED <<plan, journal, slot, launch, vm, fip, rel, wire, hit, node>>,
         claim' \in Claims, claim'.exists = claim.exists, claim'.marker = claim.marker,
         claim'.term = claim.term \/ (claim'.term = FALSE /\ (plan.lifecycle \/ ~node))
  PROVE  RemovalInv'
  <1>1. Becomes(p, "idle", FALSE, Inactive, NoDetach) /\ Runs(p)
    BY FailMoves, Running, Zenon DEF RemovalInv, At
  <1>2. Ordered("idle", FALSE) /\ JournalFree("idle", Inactive) /\ ~NoDetach.fresh
    BY DEF Ordered, AfterAddress, AfterVM, AfterRelation, JournalFree, NoDetach
  <1>3. vm = "gone" /\ fip \in {"none", "other"} /\ "target" \notin rel
    BY DEF RemovalInv, OrderInv, Ordered, At, AfterAddress, AfterVM, AfterRelation, AddressSettled
  <1>4. FinalizerLast'
    BY <1>3, Zenon DEF RemovalInv, OrderInv, FinalizerLast
  <1>5. ASSUME OneController, LaunchInv, DetachInv PROVE LaunchInv' /\ DetachInv'
    <2>1. "detach" \notin wire /\ (claim.term => claim.exists)
      BY <1>5, Zenon DEF DetachInv, At, AfterRelation
    <2>2. DetachInv'
      BY <1>1, <1>2, <1>5, <2>1, DetachAt, Zenon DEF AfterRelation, AfterVM
    <2> QED
      BY <1>5, <2>2, LaunchStays
  <1> QED
    BY <1>1, <1>2, <1>4, <1>5, MovesSlot, Zenon DEF RemovalInv, TypeInv

LEMMA FinalizeStep ==
  ASSUME RemovalInv, LifecycleFinalize \/ RecoveryFinalize
  PROVE  RemovalInv'
  <1>0. claim \in Claims
    BY DEF RemovalInv, TypeInv
  <1>1. CASE LifecycleFinalize
    <2>1. /\ claim' \in Claims /\ claim'.exists = claim.exists /\ claim'.marker = claim.marker
          /\ claim'.term = FALSE
      BY <1>0, <1>1, Zenon DEF LifecycleFinalize, Claims
    <2>2. plan.lifecycle /\ "karpenter" \in Passes
      BY <1>1, Running DEF LifecycleFinalize, At, Runs, Passes
    <2> QED
      BY <1>1, <2>1, <2>2, FinalizeMoves, Zenon DEF LifecycleFinalize, others
  <1>2. CASE RecoveryFinalize
    <2>1. /\ claim' \in Claims /\ claim'.exists = claim.exists /\ claim'.marker = claim.marker
          /\ claim'.term = claim.term \/ (claim'.term = FALSE /\ ~node)
      BY <1>0, <1>2, Zenon DEF RecoveryFinalize, Claims
    <2> QED
      BY <1>2, <2>1, FinalizeMoves, Zenon DEF RecoveryFinalize, others, Passes
  <1> QED
    BY <1>1, <1>2

LEMMA ControllerStep ==
  ASSUME RemovalInv, RecoveryReset \/ RecoveryObserve \/ Age \/ NodeDeleted \/ NodeReturns
  PROVE  RemovalInv'
  <1>1. UNCHANGED <<plan, journal, slot, launch, vm, fip, rel, hit, pass, wire>>
    BY DEF RecoveryReset, RecoveryObserve, Age, NodeDeleted, NodeReturns, others
  <1>2. claim' \in Claims /\ SameClaim
    BY DEF RecoveryReset, RecoveryObserve, Age, NodeDeleted, NodeReturns, ObsOf, RemovalInv, TypeInv,
           Claims, SameClaim
  <1>3. node' => node \/ vm = "live"
    BY Zenon DEF RecoveryReset, RecoveryObserve, Age, NodeDeleted, NodeReturns
  <1>4. FinalizerLast'
    BY <1>1, <1>2, <1>3, Zenon DEF RemovalInv, OrderInv, FinalizerLast, SameClaim
  <1> QED
    BY <1>1, <1>2, <1>4, Stays

LEMMA ReleaseStep ==
  ASSUME RemovalInv, Release
  PROVE  RemovalInv'
  <1>1. /\ UNCHANGED <<plan, journal, slot, launch, vm, fip, rel, hit, pass, wire, node>> /\ ~claim.term
        /\ claim' \in Claims /\ claim'.term = claim.term /\ claim'.marker = claim.marker
    BY Zenon DEF Release, others, RemovalInv, TypeInv, Claims
  <1>2. TypeInv'
    BY <1>1 DEF RemovalInv, TypeInv
  <1>3. OrderInv'
    BY <1>1, OrderStays, Zenon DEF RemovalInv, OrderInv, FinalizerLast
  <1>4. (plan.late \/ JournalInv)'
    BY <1>1, JournalStays DEF RemovalInv
  <1>5. ASSUME DetachInv PROVE DetachInv'
    BY <1>1, <1>5, Zenon DEF DetachInv, At, AfterVM, AfterRelation, FirstDispatch
  <1>6. SlotInv'
    BY <1>1, <1>5, SlotKept, LaunchStays DEF RemovalInv
  <1> QED
    BY <1>2, <1>3, <1>4, <1>6 DEF RemovalInv

-----------------------------------------------------------------------------
(* The newcomer. *)

LEMMA DetachApart ==
  ASSUME DetachInv, UNCHANGED <<claim, pass>>, "detach" \in wire' => "detach" \in wire, ~Detaching
  PROVE  DetachInv'
  BY Zenon DEF DetachInv, FirstDispatch, At

LEMMA LaunchMoves ==
  ASSUME RemovalInv, UNCHANGED <<plan, claim, journal, vm, fip, rel, hit, pass, node>>,
         slot' \in Slots, launch' \in Launches, wire' = wire \/ wire' = wire \cup {"assign"},
         slot' = slot \/ ~Detaching,
         LaunchInv => LaunchInv'
  PROVE  RemovalInv'
  <1>1. TypeInv'
    BY Zenon DEF RemovalInv, TypeInv, Requests
  <1>2. OrderInv'
    BY OrderStays, FinalizerStays DEF RemovalInv
  <1>3. (plan.late \/ JournalInv)'
    BY JournalStays DEF RemovalInv, AddressOps
  <1>4. SlotInv'
    BY SlotKept, DetachStays, DetachApart DEF RemovalInv, SameClaim
  <1> QED
    BY <1>1, <1>2, <1>3, <1>4 DEF RemovalInv

LEMMA LaunchTypes ==
  ASSUME TypeInv
  PROVE  /\ launch.issue \in Nat /\ launch.issue + 1 \in Nat /\ launch.phase \in {"issued", "rejected", "observed"}
         /\ \A pc \in {"idle", "reissue", "slot", "post", "watch", "finish"} :
              [launch EXCEPT !.pc = pc] \in Launches
         /\ \A i \in Nat : [launch EXCEPT !.phase = "issued", !.issue = i, !.pc = "slot"] \in Launches
         /\ \A ph \in {"rejected", "observed"} :
              [launch EXCEPT !.phase = ph, !.pc = "finish"] \in Launches
  <1>1. /\ launch.issue \in Nat /\ launch.issue + 1 \in Nat
        /\ launch.phase \in {"issued", "rejected", "observed"}
    BY DEF TypeInv, Launches
  <1>2. ASSUME NEW pc \in {"idle", "reissue", "slot", "post", "watch", "finish"}
        PROVE  [launch EXCEPT !.pc = pc] \in Launches
    BY DEF TypeInv, Launches
  <1>3. ASSUME NEW i \in Nat
        PROVE  [launch EXCEPT !.phase = "issued", !.issue = i, !.pc = "slot"] \in Launches
    BY Zenon DEF TypeInv, Launches
  <1>4. ASSUME NEW ph \in {"rejected", "observed"}
        PROVE  [launch EXCEPT !.phase = ph, !.pc = "finish"] \in Launches
    BY Zenon DEF TypeInv, Launches
  <1> QED
    BY <1>1, <1>2, <1>3, <1>4, Zenon

(* Retiring one's own issue leaves everything of others alone. *)
LEMMA RetireSlot ==
  ASSUME TypeInv, slot' = SlotFinished(slot, "newcomer", "assign", launch.issue, launch.phase)
  PROVE  slot' \in Slots /\ (slot' = slot \/ ~Detaching)
  BY SlotFinishedTypes, LaunchTypes, Zenon DEF SlotFinished, Owns, Detaching

LEMMA LaunchStep1 ==
  ASSUME RemovalInv, Step(LaunchAuthorize) \/ Step(LaunchReissue) \/ Step(LaunchFinish)
  PROVE  RemovalInv'
  <1>0. TypeInv /\ slot \in Slots /\ UNCHANGED <<plan, claim, journal, vm, fip, rel, hit, wire, pass, node>>
    BY DEF RemovalInv, TypeInv, Step, LaunchAuthorize, LaunchReissue, LaunchFinish, cloud
  <1>1. CASE Step(LaunchAuthorize)
    <2>1. launch' \in Launches /\ slot' \in Slots /\ (slot' = slot \/ ~Detaching)
      BY <1>0, <1>1, LaunchTypes, RetireSlot, Zenon DEF Step, LaunchAuthorize
    <2>2. ASSUME LaunchInv PROVE LaunchInv'
      BY <1>0, <1>1, <2>2 DEF Step, LaunchAuthorize, LaunchAt, LaunchInv, Assigning, RemovalInv, TypeInv,
                              Launches, SlotFinished
    <2> QED
      BY <1>0, <2>1, <2>2, LaunchMoves
  <1>2. CASE Step(LaunchReissue)
    <2>1. launch' \in Launches /\ slot' = slot
      BY <1>0, <1>2, LaunchTypes, Zenon DEF Step, LaunchReissue
    <2>2. ASSUME LaunchInv PROVE LaunchInv'
      <3>1. launch'.pc = "slot" /\ launch'.phase = "issued" /\ launch'.exists
        BY <1>0, <1>2 DEF Step, LaunchReissue, LaunchAt, TypeInv, Launches
      <3>2. launch.phase = "rejected"
        BY <1>2, <2>2 DEF Step, LaunchReissue, LaunchAt, LaunchInv
      <3> QED
        BY <1>0, <2>2, <3>1, <3>2, Zenon DEF LaunchInv, Assigning
    <2> QED
      BY <1>0, <2>1, <2>2, LaunchMoves
  <1>3. CASE Step(LaunchFinish)
    <2>1. launch' \in Launches /\ slot' \in Slots /\ (slot' = slot \/ ~Detaching)
      BY <1>0, <1>3, LaunchTypes, RetireSlot, Zenon DEF Step, LaunchFinish
    <2>2. ASSUME LaunchInv PROVE LaunchInv'
      <3>1. launch'.pc = "idle" /\ launch'.phase = launch.phase /\ launch'.exists = launch.exists
        BY <1>0, <1>3 DEF Step, LaunchFinish, TypeInv, Launches
      <3>2. launch.phase \in {"observed", "rejected"}
        BY <1>3, <2>2 DEF Step, LaunchFinish, LaunchAt, LaunchInv
      <3> QED
        BY <1>0, <2>2, <3>1, <3>2, Zenon DEF LaunchInv, Assigning
    <2> QED
      BY <1>0, <2>1, <2>2, LaunchMoves
  <1> QED
    BY <1>1, <1>2, <1>3

LEMMA LaunchStep2 ==
  ASSUME RemovalInv,
         Step(LaunchSlot) \/ Step(LaunchPost) \/ Step(LaunchWatch) \/ Step(LaunchAbandon)
  PROVE  RemovalInv'
  <1>0. TypeInv /\ slot \in Slots /\ UNCHANGED <<plan, claim, journal, vm, fip, rel, hit, pass, node>>
    BY DEF RemovalInv, TypeInv, Step, LaunchSlot, LaunchPost, LaunchWatch, LaunchAbandon, cloud
  <1>1. CASE Step(LaunchSlot)
    <2>1. LaunchAt("slot") /\ UNCHANGED wire
      BY <1>1 DEF Step, LaunchSlot
    <2>2. CASE UNCHANGED slot /\ \E pc \in {"watch", "idle"} : launch' = [launch EXCEPT !.pc = pc]
      <3>1. launch' \in Launches
        BY <1>0, <2>2, LaunchTypes, Zenon
      <3>2. launch'.pc \in {"watch", "idle"} /\ launch'.phase = launch.phase /\ launch'.issue = launch.issue
            /\ launch'.exists = launch.exists
        BY <1>0, <2>2 DEF TypeInv, Launches
      <3>3. ASSUME LaunchInv PROVE LaunchInv'
        BY <1>0, <2>1, <2>2, <3>2, <3>3 DEF LaunchAt, LaunchInv, Assigning
      <3> QED
        BY <1>0, <2>1, <2>2, <3>1, <3>3, LaunchMoves
    <2>3. CASE /\ ~(Owns(slot, "newcomer", "assign") /\ slot.issue = launch.issue)
               /\ IF slot.owner = "target" THEN TargetSlotSettled ELSE LaunchSlotSettled
               /\ slot' = Taken("newcomer", "assign", launch.issue)
               /\ launch' = [launch EXCEPT !.pc = "post"]
      <3>1. launch' \in Launches
        BY <1>0, <2>3, LaunchTypes, Zenon
      <3>2. launch'.pc = "post" /\ launch'.phase = launch.phase /\ launch'.issue = launch.issue
            /\ launch'.exists = launch.exists
        BY <1>0, <2>3 DEF TypeInv, Launches
      <3>3. slot' \in Slots
        BY <1>0, <2>3, LaunchTypes, Zenon DEF Taken, Slots
      <3>4. ~Detaching
        BY <2>3 DEF Detaching, TargetSlotSettled, Terminal
      <3>5. ASSUME LaunchInv PROVE LaunchInv'
        BY <1>0, <2>1, <2>3, <3>2, <3>5 DEF LaunchAt, LaunchInv, Assigning, Owns, Taken
      <3> QED
        BY <1>0, <2>1, <3>1, <3>3, <3>4, <3>5, LaunchMoves
    <2> QED
      BY <1>1, <2>2, <2>3 DEF Step, LaunchSlot
  <1>2. CASE Step(LaunchPost)
    <2>1. CASE wire' = wire \cup {"assign"} /\ launch' = [launch EXCEPT !.pc = "watch"]
      <3>1. launch' \in Launches /\ launch'.pc = "watch" /\ launch'.phase = launch.phase
            /\ launch'.issue = launch.issue /\ launch'.exists = launch.exists
        BY <1>0, <2>1 DEF TypeInv, Launches
      <3>2. ASSUME LaunchInv PROVE LaunchInv'
        BY <1>0, <1>2, <2>1, <3>1, <3>2 DEF Step, LaunchPost, LaunchAt, LaunchInv, Assigning
      <3> QED
        BY <1>0, <1>2, <2>1, <3>1, <3>2, LaunchMoves DEF Step, LaunchPost
    <2>2. CASE UNCHANGED wire /\ launch' = [launch EXCEPT !.phase = "rejected", !.pc = "finish"]
      <3>1. launch' \in Launches /\ launch'.pc = "finish" /\ launch'.phase = "rejected"
            /\ launch'.exists = launch.exists
        BY <1>0, <2>2, Zenon DEF TypeInv, Launches
      <3>2. ASSUME LaunchInv PROVE LaunchInv'
        BY <1>0, <1>2, <2>2, <3>1, <3>2 DEF Step, LaunchPost, LaunchAt, LaunchInv, Assigning
      <3> QED
        BY <1>0, <1>2, <2>2, <3>1, <3>2, LaunchMoves DEF Step, LaunchPost
    <2> QED
      BY <1>2, <2>1, <2>2 DEF Step, LaunchPost, Send
  <1>3. CASE Step(LaunchWatch)
    <2>1. launch' \in Launches /\ launch'.pc = "finish" /\ launch'.phase = "observed"
          /\ launch'.exists = launch.exists
      BY <1>0, <1>3, Zenon DEF Step, LaunchWatch, TypeInv, Launches
    <2>2. ASSUME LaunchInv PROVE LaunchInv'
      BY <1>0, <1>3, <2>1, <2>2 DEF Step, LaunchWatch, LaunchAt, LaunchInv, Assigning
    <2> QED
      BY <1>0, <1>3, <2>1, <2>2, LaunchMoves DEF Step, LaunchWatch
  <1>4. CASE Step(LaunchAbandon)
    <2>1. launch' \in Launches /\ launch'.pc = "idle" /\ launch'.phase = launch.phase
          /\ launch'.issue = launch.issue /\ launch'.exists = launch.exists
      BY <1>0, <1>4 DEF Step, LaunchAbandon, TypeInv, Launches
    <2>2. ASSUME LaunchInv PROVE LaunchInv'
      BY <1>0, <1>4, <2>1, <2>2 DEF Step, LaunchAbandon, LaunchInv, Assigning
    <2> QED
      BY <1>0, <1>4, <2>1, <2>2, LaunchMoves DEF Step, LaunchAbandon
  <1> QED
    BY <1>1, <1>2, <1>3, <1>4

-----------------------------------------------------------------------------
(* The cloud. *)

(* What is gone stays gone. *)
LEMMA OrderSettles ==
  ASSUME OrderInv, UNCHANGED <<plan, claim, node, pass>>,
         vm = "gone" => vm' = "gone", AddressSettled => AddressSettled',
         "target" \in rel' => "target" \in rel
  PROVE  OrderInv'
  <1>1. FinalizerLast'
    BY DEF OrderInv, FinalizerLast, AddressSettled
  <1>2. \A p \in Passes : (~At(p, "idle") => Runs(p))' /\ Ordered(pass[p].pc, pass[p].fip)'
    BY DEF OrderInv, Ordered, Runs, At
  <1> QED
    BY <1>1, <1>2 DEF OrderInv

(* The address moves on: from its VM, then out of the account. *)
LEMMA JournalSettles ==
  ASSUME TypeInv, JournalInv, UNCHANGED <<journal, hit, pass>>,
         \A op \in AddressOps : op \in wire' => op \in wire,
         \/ fip = "assigned" /\ fip' = "free"
         \/ fip = "free" /\ fip' = "none" /\ "delete" \in wire /\ "delete" \notin wire'
         \/ fip = "none" /\ fip' = "other"
  PROVE  JournalInv'
  <1>1. /\ \A op \in AddressOps : op \in wire' =>
               Standing(op)' /\ \A p \in Passes : ~At(p, SendingAt(op))'
        /\ \A op \in AddressOps : \A p \in Passes : At(p, SendingAt(op))' =>
               Standing(op)' /\ \A q \in Passes : At(q, SendingAt(op))' => q = p
    <2>1. ASSUME NEW op \in AddressOps PROVE Standing(op)' <=> Standing(op)
      BY DEF Standing
    <2>2. ASSUME NEW op \in AddressOps, NEW p \in Passes
          PROVE  At(p, SendingAt(op))' <=> At(p, SendingAt(op))
      BY DEF At, SendingAt
    <2>3. ASSUME NEW op \in AddressOps, op \in wire'
          PROVE  Standing(op)' /\ \A p \in Passes : ~At(p, SendingAt(op))'
      BY <2>1, <2>2, <2>3, Zenon DEF JournalInv
    <2>4. ASSUME NEW op \in AddressOps, NEW p \in Passes, At(p, SendingAt(op))'
          PROVE  Standing(op)' /\ \A q \in Passes : At(q, SendingAt(op))' => q = p
      BY <2>1, <2>2, <2>4, Zenon DEF JournalInv
    <2> QED
      BY <2>3, <2>4, Zenon
  <1>2. ASSUME NEW op \in AddressOps, NEW p \in Passes, At(p, ProvingAt(op))'
        PROVE  (/\ pass[p].auth.op = op /\ pass[p].auth.issue <= journal.issue
                /\ fip = Expected(op) => Standing(op) /\ pass[p].auth.issue = journal.issue
                /\ pass[p].auth.issue = journal.issue =>
                      /\ op \notin wire
                      /\ \A q \in Passes : ~At(q, SendingAt(op))
                      /\ \A q \in Passes : At(q, ProvingAt(op)) /\ pass[q].auth.issue = journal.issue
                                        => q = p)'
    <2>1. At(p, ProvingAt(op))
      BY <1>2 DEF At, ProvingAt
    <2>a. op = "delete" => pass[p].pc = "proveDelete"
      BY <2>1 DEF At, ProvingAt
    <2>b. op = "delete" => fip # "assigned"
      BY <2>a, Zenon DEF JournalInv
    <2>2. fip' # Expected(op)'
      BY <2>b DEF AddressOps, Expected
    <2> QED
      BY <2>1, <2>2 DEF JournalInv, Standing, At, ProvingAt, SendingAt
  <1>3. (AddressSettled => \A op \in AddressOps :
            op \notin wire /\ \A p \in Passes : ~At(p, SendingAt(op)))'
    BY Zenon DEF JournalInv, AddressSettled, Standing, AddressOps, At, SendingAt
  <1>4. /\ \A p \in Passes : pass'[p].pc \in {"authorizeDelete", "proveDelete"} => fip' # "assigned"
        /\ \A p \in Passes : pass'[p].pc \in {"proveVM", "sendVM", "absent"} =>
              pass'[p].auth.op = "vm" \/ pass'[p].auth.phase = "none"
        /\ ~hit'
    BY Zenon DEF JournalInv
  <1> QED
    BY <1>1, <1>2, <1>3, <1>4, Zenon DEF JournalInv

LEMMA CommitStep ==
  ASSUME RemovalInv, NEW r \in Requests, Step(Commit(r))
  PROVE  RemovalInv'
  <1>1. UNCHANGED <<plan, claim, journal, slot, launch, pass, node>> /\ r \in wire /\ wire' = wire \ {r}
    BY DEF Step, Commit
  <1>2. /\ vm' \in {"live", "gone"} /\ (vm = "gone" => vm' = "gone")
        /\ rel' \subseteq {"target", "newcomer"} /\ ("target" \in rel' => "target" \in rel)
        /\ "newcomer" \in rel' => "newcomer" \in rel \/ r = "assign"
    BY DEF Step, Commit, RemovalInv, TypeInv
  <1>3. \/ fip' = fip
        \/ fip = "assigned" /\ fip' = "free"
        \/ fip \in {"free", "other"} /\ fip' = "none" /\ r = "delete"
    BY DEF Step, Commit
  <1>4. hit' = (hit \/ (r \in AddressOps /\ fip = "other"))
    BY DEF Step, Commit, AddressOps
  <1>5. TypeInv'
    BY <1>1, <1>2, <1>3, <1>4 DEF RemovalInv, TypeInv
  <1>6. OrderInv'
    BY <1>1, <1>2, <1>3, OrderSettles DEF RemovalInv, AddressSettled
  <1>7. (plan.late \/ JournalInv)'
    <2> SUFFICES ASSUME ~plan.late PROVE JournalInv'
      BY <1>1
    <2>1. JournalInv
      BY DEF RemovalInv
    <2>2. r \in AddressOps => fip # "other"
      BY <1>1, <2>1, Zenon DEF JournalInv, AddressSettled
    <2>3. hit' = hit
      <3>1. hit = FALSE
        BY <2>1, Zenon DEF JournalInv, RemovalInv, TypeInv
      <3>2. ~(r \in AddressOps /\ fip = "other")
        BY <2>2
      <3> QED
        BY <1>4, <3>1, <3>2, Zenon
    <2>4. CASE fip' = fip
      BY <1>1, <2>1, <2>3, <2>4, JournalStays
    <2>5. CASE fip' # fip
      BY <1>1, <1>3, <2>1, <2>2, <2>3, <2>5, JournalSettles DEF RemovalInv, AddressOps
    <2> QED
      BY <2>4, <2>5
  <1>8. SlotInv'
    <2>1. LaunchInv => LaunchInv'
      BY <1>1, <1>2, Zenon DEF LaunchInv, Assigning
    <2> QED
      BY <1>1, <2>1, SlotKept, DetachStays DEF RemovalInv, SameClaim
  <1> QED
    BY <1>5, <1>6, <1>7, <1>8 DEF RemovalInv

LEMMA LoseStep ==
  ASSUME RemovalInv, NEW r \in Requests, Step(Lose(r))
  PROVE  RemovalInv'
  BY Stays, FinalizerStays DEF Step, Lose, cloud, RemovalInv, TypeInv, SameClaim

LEMMA PlatformStep ==
  ASSUME RemovalInv, Step(CloudReleases) \/ Step(CloudReallocates)
  PROVE  RemovalInv'
  <1>1. UNCHANGED <<plan, claim, journal, slot, launch, vm, hit, wire, pass, node>>
    BY DEF Step, CloudReleases, CloudReallocates
  <1>2. fip' = fip \/ (fip = "assigned" /\ fip' = "free") \/ (fip = "none" /\ fip' = "other")
    BY DEF Step, CloudReleases, CloudReallocates
  <1>3. rel' \subseteq rel
    BY DEF Step, CloudReleases, CloudReallocates
  <1>4. TypeInv'
    BY <1>1, <1>2, <1>3 DEF RemovalInv, TypeInv
  <1>5. OrderInv'
    BY <1>1, <1>2, <1>3, OrderSettles DEF RemovalInv, AddressSettled
  <1>6. (plan.late \/ JournalInv)'
    BY <1>1, <1>2, JournalStays, JournalSettles DEF RemovalInv
  <1>7. SlotInv'
    BY <1>1, <1>3, SlotKept, LaunchStays, DetachStays DEF RemovalInv, SameClaim
  <1> QED
    BY <1>4, <1>5, <1>6, <1>7 DEF RemovalInv

-----------------------------------------------------------------------------
LEMMA RemovalInit ==
  ASSUME RInit PROVE RemovalInv
  <1>1. TypeInv
    BY InitTypes
  <1>2. /\ \A p \in Passes : pass[p].pc = "idle" /\ ~pass[p].fip /\ ~pass[p].dt.fresh
        /\ wire = {} /\ ~hit /\ fip = "assigned" /\ rel = {"target"}
        /\ claim.exists /\ claim.term /\ ~claim.marker
        /\ launch.pc = "idle"
    BY Zenon DEF RInit, Init, Idle, NoDetach
  <1>3. OrderInv
    BY <1>2 DEF OrderInv, Ordered, At, FinalizerLast, AfterAddress, AfterVM, AfterRelation
  <1>4. JournalInv
    BY <1>2, Zenon DEF JournalInv, AddressOps, At, SendingAt, ProvingAt, AddressSettled
  <1>5. LaunchInv /\ DetachInv
    BY <1>2, Zenon DEF LaunchInv, DetachInv, At, AfterRelation
  <1> QED
    BY <1>1, <1>3, <1>4, <1>5 DEF RemovalInv, SlotInv

LEMMA RemovalNext ==
  ASSUME RemovalInv, [Next]_all PROVE RemovalInv'
  <1>1. CASE \E p \in Passes :
               \/ Step(Enter(p)) \/ Step(ReadLive(p)) \/ Step(ReadGone(p)) \/ Step(RecallVM(p))
               \/ Step(AuthorizeVM(p)) \/ Step(ProveVM(p)) \/ Step(SendVM(p)) \/ Step(Absent(p))
               \/ Step(AddressAssigned(p)) \/ Step(AddressFree(p)) \/ Step(AuthorizeDelete(p))
    BY <1>1, EnterStep, ReadStep, RecallStep, AuthorizeStep, ProveVMStep, SendVMStep, ObserveStep, Zenon
  <1>2. CASE \E p \in Passes :
               \/ Step(ProveAddress(p, "unassign", "assigned")) \/ Step(ProveAddress(p, "delete", "free"))
               \/ \E op \in {"unassign", "delete"} : Step(SendAddress(p, op))
               \/ Step(AddressGone(p)) \/ Step(ObserveDelete(p)) \/ Step(AddressTaken(p)) \/ Step(Confirm(p))
    <2>1. "unassign" \in AddressOps /\ "delete" \in AddressOps /\ AddressOps = {"unassign", "delete"}
          /\ Expected("unassign") = "assigned" /\ Expected("delete") = "free"
      BY DEF AddressOps, Expected
    <2> QED
      BY <1>2, <2>1, ProveAddressStep, SendAddressStep, ObserveStep, ConfirmStep
  <1>3. CASE \E p \in Passes :
               \/ Step(DetachFound(p)) \/ Step(DetachDispatch(p)) \/ Step(ProveDetach(p))
               \/ Step(SendDetach(p)) \/ Step(DetachGone(p)) \/ Step(ObserveDetach(p))
               \/ Step(Converged(p)) \/ Step(Abandon(p))
    BY <1>3, FoundStep, DispatchStep, ProveDetachStep, SendDetachStep, ObserveDetachStep, ConvergedStep,
       ConfirmStep
  <1>4. CASE \/ LifecycleDelete \/ LifecycleFinalize
             \/ RecoveryReset \/ RecoveryObserve \/ RecoveryAudit \/ RecoveryFinalize
             \/ Age \/ NodeDeleted \/ NodeReturns \/ Release
    BY <1>4, BeginStep, FinalizeStep, ControllerStep, ReleaseStep
  <1>5. CASE \/ Step(LaunchAuthorize) \/ Step(LaunchReissue) \/ Step(LaunchSlot) \/ Step(LaunchPost)
             \/ Step(LaunchWatch) \/ Step(LaunchFinish) \/ Step(LaunchAbandon)
    BY <1>5, LaunchStep1, LaunchStep2
  <1>6. CASE \/ \E r \in Requests : Step(Commit(r))
             \/ \E r \in Requests : Step(Lose(r))
             \/ Step(CloudReleases) \/ Step(CloudReallocates)
    BY <1>6, CommitStep, LoseStep, PlatformStep
  <1>7. CASE UNCHANGED all
    <2>1. claim' \in Claims /\ SameClaim /\ FinalizerLast'
      BY <1>7, FinalizerStays DEF all, RemovalInv, TypeInv, SameClaim
    <2> QED
      BY <1>7, <2>1, Stays DEF all
  <1> QED
    BY <1>1, <1>2, <1>3, <1>4, <1>5, <1>6, <1>7, Zenon DEF Next

LEMMA RemovalAlways == Spec => []RemovalInv
  BY RemovalInit, RemovalNext, PTL DEF Spec

(* The marker and the finalizer come last, for any number of passes,         *)
(* crashes, lost requests and late ones (CloudProvider.delete,               *)
(* TerminationRecoveryController.Reconcile).                                 *)
THEOREM FinalizerComesLast == Spec => []FinalizerLast
  <1>1. RemovalInv => FinalizerLast
    BY DEF RemovalInv, OrderInv
  <1> QED
    BY <1>1, RemovalAlways, PTL

(* No request of a removal reaches an address that was given to somebody     *)
(* else (deleteOwnedFloatingIPWithProof, AuthorizeRemovalMutation).          *)
THEOREM AddressesOfOthers == Spec => []OthersKeepTheirs
  <1>1. RemovalInv => OthersKeepTheirs
    BY Zenon DEF RemovalInv, JournalInv, OthersKeepTheirs
  <1> QED
    BY <1>1, RemovalAlways, PTL

(* An assignment and a detachment are never in flight on one firewall        *)
(* together, one controller removing the claim (acquireFirewallMutationSlot). *)
THEOREM FirewallHasOneOwner == Spec => []OneFirewallOwner
  <1>1. RemovalInv => OneFirewallOwner
    BY Zenon DEF RemovalInv, SlotInv, LaunchInv, DetachInv, Assigning, Detaching, OneFirewallOwner
  <1> QED
    BY <1>1, RemovalAlways, PTL
=============================================================================
