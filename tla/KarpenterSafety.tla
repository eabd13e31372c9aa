--------------------------- MODULE KarpenterSafety ---------------------------
(***************************************************************************)
(* Proofs about KarpenterCreate, for every set of Create invocations: the   *)
(* create-protection finalizer is given up only when nothing is left of the *)
(* launch or can still come of it, and a published VM of a claim that nobody *)
(* deletes is never taken away.                                             *)
(***************************************************************************)
EXTENDS KarpenterTheorems

(* The POST of c may still make a VM, or has made one that is alive. *)
Sending(c) == c \in posting \/ vm[c] = "live" \/ At(c, "preflight")

(* What was sent is accounted for by a record: its issue sent it, and it is  *)
(* past the reservation; a rejected attempt left nothing.                    *)
Accounts(r) ==
    /\ \A c \in Creators : Sending(c) => r.issue = c /\ r.phase \in {"issued", "materialized"}
    /\ \A c \in Creators : vm[c] # "none" => r.issue = c /\ r.phase \notin Unissued
    /\ r.phase = "rejected" => \A v \in VMs : fip[v] = "none"

(* The anchor and the receipts of a record are of its one VM; a rollback     *)
(* without a receipt of the anchored VM says what it knows of the address.   *)
Coherent(r) ==
    /\ r.phase \notin Unissued => r.issue # None
    /\ r.created # None => r.created = r.issue /\ vm[r.created] # "none"
    /\ \A v \in r.receipts : v = r.issue /\ vm[v] # "none"
    /\ r.rollback /\ r.created # None /\ r.created \notin r.receipts => r.unresolved \/ r.resolved

(* A POST on the wire has not made its VM; an address is of a VM that was    *)
(* made, and has the name or none yet while it is alive.                     *)
WireInv == \A c \in Creators :
    /\ c \in posting => vm[c] = "none"
    /\ cr[c].pc \in {"preflight", "reject"} => c \notin posting /\ vm[c] = "none" /\ cr[c].issue = c
    /\ cr[c].vm # None => vm[cr[c].vm] # "none"
    /\ fip[c] # "none" => vm[c] # "none"
    /\ fip[c] \in {"auto", "named"} => vm[c] = "live"

(* Nothing is left of the launch, and nothing can come of it. *)
Quiet == \A c \in Creators : ~Sending(c) /\ fip[c] = "none"

FenceInv ==
    /\ Coherent(rec)
    /\ claim.prot => Accounts(rec)
    /\ ~claim.prot => Quiet /\ CtlAt("idle") /\ operator.result = "none"
    /\ ~claim.prot /\ ~claim.deleting => \A v \in VMs : vm[v] = "none"

(* The pass of the controller works with a record that still accounts for    *)
(* everything: what it has reaped stays away, and what it has audited stays  *)
(* quiet.                                                                    *)
Reaped == {"anchor", "audit", "persist", "dependents", "release"}

PassInv ==
    /\ ~CtlAt("idle") => Coherent(ctl.snap) /\ Accounts(ctl.snap)
    /\ ~CtlAt("idle") /\ ~claim.deleting => rec.phase \notin Unissued /\ ctl.snap.phase \notin Unissued
    /\ ctl.pc \in Cleaning /\ ctl.snap.phase = "issued" /\ ctl.snap.created # None => ctl.snap.rollback
    /\ ctl.pc \in Reaped => \A v \in Receipts(ctl.snap) : fip[v] = "none" /\ vm[v] = "gone"
    /\ CtlAt("persist") => vm[ctl.vm] # "none"
    /\ CtlAt("release") => Quiet

(* An operator's decision waits for the controller: no pass cleans up and     *)
(* no POST follows the word that none will come.                             *)
OperatorInv ==
    /\ operator.result # "none" => rec.phase \notin Unissued /\ ctl.pc \in {"idle", "choose", "operator"}
    /\ operator.result = "noResult" => \A c \in Creators : ~Sending(c)

EscapeInv == WireInv /\ FenceInv /\ PassInv /\ OperatorInv

(* While nobody deletes the claim, a rollback and a materialization exclude  *)
(* each other, only a rollback or a bad address deletes the VM, and what is  *)
(* published is materialized.                                                *)
PublishInv == ~claim.deleting =>
    /\ rec.rollback => rec.phase = "issued"
    /\ rec.receipts # {} => rec.rollback
    /\ ctl.pc \in Cleaning => /\ rec.rollback
                              /\ ctl.snap.rollback /\ ctl.snap.phase = "issued"
    /\ ~CtlAt("choose")
    /\ dropping # {} \/ (\E v \in VMs : vm[v] = "gone") =>
          rec.rollback \/ (bad /\ rec.phase = "materialized")
    /\ \A c \in Creators : At(c, "undo") => rec.rollback
    /\ \A c \in Creators : cr[c].pc \in {"done", "recycle"} =>
          rec.phase = "materialized" /\ rec.created = cr[c].vm
    /\ \A c \in Creators : At(c, "recycle") => bad
    /\ claim.pid # None => rec.phase = "materialized" /\ rec.created = claim.pid

SafetyInv == EscapeInv /\ PublishInv

-----------------------------------------------------------------------------
(* Steps that send nothing.                                                 *)

(* The cloud stays as it is, but for addresses that are deleted, or named    *)
(* while their VM is alive.                                                  *)
Unmoved ==
    /\ posting' = posting /\ vm' = vm
    /\ \A v \in VMs : \/ fip'[v] = fip[v] \/ fip'[v] = "none"
                      \/ fip'[v] = "named" /\ vm[v] = "live"

(* No invocation comes nearer to its POST or learns of a VM that is not.     *)
Modest == \A c \in Creators :
    /\ cr'[c].pc = "preflight" => cr[c].pc = "preflight"
    /\ cr'[c].pc \in {"preflight", "reject"} =>
          cr[c].pc \in {"preflight", "reject"} /\ cr'[c].issue = cr[c].issue
    /\ cr'[c].vm # None => vm[cr'[c].vm] # "none"

(* The two records agree in all that the invariants read. *)
Same(r, q) ==
    /\ r.phase = q.phase /\ r.issue = q.issue /\ r.created = q.created
    /\ r.receipts = q.receipts /\ r.rollback = q.rollback
    /\ r.unresolved = q.unresolved /\ r.resolved = q.resolved

SamePass == ctl'.pc = ctl.pc /\ ctl'.snap = ctl.snap /\ ctl'.vm = ctl.vm

(* In general: only what was sent becomes a VM, disappears or gets an        *)
(* address, and nothing more is sent.                                        *)
Calm ==
    /\ WireInv'
    /\ \A c \in Creators : Sending(c)' => Sending(c)
    /\ \A v \in VMs : vm'[v] # vm[v] => Sending(v) /\ vm'[v] # "none"
    /\ \A v \in VMs : fip'[v] = fip[v] \/ fip'[v] = "none" \/ Sending(v)

LEMMA UnmovedIsCalm ==
  ASSUME WireInv, Unmoved, Modest
  PROVE  Calm
  <1>1. WireInv'
    BY DEF WireInv, Unmoved, Modest, VMs
  <1>2. \A c \in Creators : Sending(c)' => Sending(c)
    BY DEF Unmoved, Modest, Sending, At
  <1> QED
    BY <1>1, <1>2 DEF Calm, Unmoved, Sending, VMs

LEMMA QuietFrame ==
  ASSUME Quiet, Calm
  PROVE  Quiet'
  BY DEF Quiet, Calm, VMs

\* A rejected attempt has nothing alive, so no address of it is named.
LEMMA RejectedQuiet ==
  ASSUME Calm, NEW r, Accounts(r), r.phase = "rejected"
  PROVE  \A v \in VMs : fip'[v] = "none"
  BY DEF Accounts, Calm, VMs

LEMMA AccountsCalm ==
  ASSUME Calm, NEW r, Accounts(r)
  PROVE  /\ \A c \in Creators : Sending(c)' => r.issue = c /\ r.phase \in {"issued", "materialized"}
         /\ \A c \in Creators : vm'[c] # "none" => r.issue = c /\ r.phase \notin Unissued
         /\ r.phase = "rejected" => \A v \in VMs : fip'[v] = "none"
  <1>1. \A c \in Creators : Sending(c)' => r.issue = c /\ r.phase \in {"issued", "materialized"}
    BY DEF Accounts, Calm
  <1>2. \A c \in Creators : vm'[c] # "none" => r.issue = c /\ r.phase \notin Unissued
    BY DEF Accounts, Calm, VMs, Unissued
  <1> QED
    BY <1>1, <1>2, RejectedQuiet

LEMMA AccountsRecord ==
  ASSUME Calm, Accounts(rec), rec'.issue = rec.issue,
         rec'.phase = rec.phase \/ (rec.phase = "issued" /\ rec'.phase = "materialized")
  PROVE  Accounts(rec)'
  BY AccountsCalm DEF Accounts, Unissued

LEMMA AccountsSnap ==
  ASSUME Calm, Accounts(ctl.snap), ctl'.snap = ctl.snap
  PROVE  Accounts(ctl.snap)'
  BY AccountsCalm DEF Accounts

LEMMA AccountsRestored ==
  ASSUME Calm, Accounts(ctl.snap), rec'.issue = ctl.snap.issue, rec'.phase = ctl.snap.phase
  PROVE  Accounts(rec)'
  BY AccountsCalm DEF Accounts

\* A pass goes on from a place where it had its record.
LEMMA ReapedFrame ==
  ASSUME WireInv, Calm, ctl'.snap = ctl.snap,
         \A v \in Receipts(ctl.snap) : v \in VMs /\ fip[v] = "none" /\ vm[v] = "gone"
  PROVE  \A v \in Receipts(ctl.snap)' : fip'[v] = "none" /\ vm'[v] = "gone"
  <1>1. \A v \in Receipts(ctl.snap) : ~Sending(v)
    BY DEF Sending, WireInv, At, VMs
  <1> QED
    BY <1>1 DEF Calm, Receipts

-----------------------------------------------------------------------------
(* Frames of the escape invariant.                                          *)

\* Whatever a pass has its receipts of is a VM.
LEMMA ReceiptVMs ==
  ASSUME TypeInv
  PROVE  \A v \in Receipts(ctl.snap) : v \in VMs
  BY ControlFields, ReceiptsSound DEF TypeInv

\* A step of somebody else, during whatever pass of the controller.
LEMMA OtherFrame ==
  ASSUME TypeInv, EscapeInv, Calm, SamePass, Coherent(rec)',
         claim'.prot = claim.prot, claim.deleting => claim'.deleting,
         claim.prot => Accounts(rec)', rec'.phase \in Unissued => rec.phase \in Unissued,
         operator'.result = operator.result
  PROVE  EscapeInv'
  <1> USE DEF EscapeInv
  <1>1. WireInv'
    BY DEF Calm
  <1>2. FenceInv'
    <2>1. claim'.prot => Accounts(rec)'
      OBVIOUS
    <2>2. ~claim'.prot => Quiet' /\ CtlAt("idle")' /\ operator'.result = "none"
      BY QuietFrame DEF FenceInv, SamePass, CtlAt
    <2>3. ~claim'.prot /\ ~claim'.deleting => \A v \in VMs : vm'[v] = "none"
      BY DEF FenceInv, Quiet, Calm, VMs
    <2> QED
      BY <2>1, <2>2, <2>3 DEF FenceInv
  <1>3. PassInv'
    <2>1. CtlAt("idle")' <=> CtlAt("idle")
      BY DEF CtlAt, SamePass
    <2>2. ~CtlAt("idle") => Coherent(ctl.snap)' /\ Accounts(ctl.snap)'
      <3>1. ~CtlAt("idle") => Coherent(ctl.snap)'
        <4>1. \A v \in VMs : vm[v] # "none" => vm'[v] # "none"
          BY DEF Calm
        <4>2. ctl.snap.created # None => ctl.snap.created \in VMs
          BY ControlFields, RecordFields DEF TypeInv
        <4>3. \A v \in ctl.snap.receipts : v \in VMs
          BY ControlFields, RecordFields DEF TypeInv
        <4> QED
          BY <4>1, <4>2, <4>3 DEF PassInv, Coherent, SamePass
      <3>2. ~CtlAt("idle") => Accounts(ctl.snap)'
        BY AccountsSnap DEF PassInv, SamePass
      <3> QED
        BY <3>1, <3>2
    <2>3. ~CtlAt("idle") /\ ~claim'.deleting => rec'.phase \notin Unissued /\ ctl'.snap.phase \notin Unissued
      BY DEF PassInv, SamePass
    <2>4. ctl'.pc \in Cleaning /\ ctl'.snap.phase = "issued" /\ ctl'.snap.created # None => ctl'.snap.rollback
      BY DEF PassInv, SamePass
    <2>5. ctl'.pc \in Reaped => \A v \in Receipts(ctl.snap)' : fip'[v] = "none" /\ vm'[v] = "gone"
      BY ReceiptVMs, ReapedFrame DEF PassInv, SamePass
    <2>6. CtlAt("persist")' => vm'[ctl'.vm] # "none"
      BY ControlFields DEF PassInv, SamePass, CtlAt, Calm, TypeInv
    <2>7. CtlAt("release")' => Quiet'
      BY QuietFrame DEF PassInv, SamePass, CtlAt
    <2> QED
      BY <2>1, <2>2, <2>3, <2>4, <2>5, <2>6, <2>7 DEF PassInv
  <1>4. OperatorInv'
    <2>1. operator'.result # "none" => rec'.phase \notin Unissued /\ ctl'.pc \in {"idle", "choose", "operator"}
      BY DEF OperatorInv, SamePass
    <2>2. operator'.result = "noResult" => \A c \in Creators : ~Sending(c)'
      BY DEF OperatorInv, Calm
    <2> QED
      BY <2>1, <2>2 DEF OperatorInv
  <1> QED
    BY <1>1, <1>2, <1>3, <1>4

\* The controller ends its pass, having written a record that accounts for
\* everything.
LEMMA EndFrame ==
  ASSUME TypeInv, EscapeInv, Calm, ctl'.pc = "idle", ~CtlAt("idle"),
         Coherent(rec)', Accounts(rec)', claim'.prot = claim.prot,
         claim'.deleting = claim.deleting,
         operator'.result \in {operator.result, "none"},
         operator'.result # "none" => rec'.phase \notin Unissued
  PROVE  EscapeInv'
  <1> USE DEF EscapeInv
  <1>1. WireInv'
    BY DEF Calm
  <1>2. claim.prot
    BY DEF FenceInv
  <1>3. FenceInv'
    BY <1>2 DEF FenceInv
  <1>4. PassInv'
    BY DEF PassInv, CtlAt, Cleaning, Reaped
  <1>5. OperatorInv'
    BY DEF OperatorInv, Calm
  <1> QED
    BY <1>1, <1>3, <1>4, <1>5

\* The controller goes on with its pass.
LEMMA GoesFrame ==
  ASSUME TypeInv, EscapeInv, Unmoved, UNCHANGED <<cr, claim, operator>>,
         ctl.pc \in Cleaning, ctl'.pc \in Cleaning, ctl'.snap = ctl.snap,
         Same(rec', rec),
         \/ ctl.pc \in Reaped
         \/ ctl'.pc \notin Reaped
         \/ \A v \in Receipts(ctl.snap) : fip'[v] = "none" /\ vm[v] = "gone",
         ctl'.pc = "persist" => vm[ctl'.vm] # "none",
         ctl'.pc = "release" => Quiet
  PROVE  EscapeInv'
  <1> USE DEF EscapeInv
  <1>0. Calm
    <2>1. Modest
      BY DEF Modest, WireInv
    <2> QED
      BY <2>1, UnmovedIsCalm
  <1>1. WireInv'
    BY <1>0 DEF Calm
  <1>2. ~CtlAt("idle") /\ claim.prot
    BY DEF FenceInv, CtlAt, Cleaning
  <1>3. Accounts(rec)' /\ Accounts(ctl.snap)'
    BY <1>0, <1>2, AccountsRecord, AccountsSnap DEF FenceInv, PassInv, Same
  <1>4. Coherent(rec)' /\ Coherent(ctl.snap)'
    BY <1>2 DEF FenceInv, PassInv, Same, Coherent, Unmoved
  <1>5. FenceInv'
    BY <1>2, <1>3, <1>4 DEF FenceInv
  <1>6. PassInv'
    <2>1. ctl'.pc \in Reaped => \A v \in Receipts(ctl.snap)' : fip'[v] = "none" /\ vm'[v] = "gone"
      <3>1. CASE ctl.pc \in Reaped
        BY <1>0, <3>1, ReceiptVMs, ReapedFrame DEF PassInv
      <3>2. CASE \A v \in Receipts(ctl.snap) : fip'[v] = "none" /\ vm[v] = "gone"
        BY <3>2 DEF Receipts, Unmoved
      <3> QED
        BY <3>1, <3>2
    <2>2. ctl'.pc = "persist" => vm'[ctl'.vm] # "none"
      BY DEF Unmoved
    <2>3. ctl'.pc = "release" => Quiet'
      BY <1>0, QuietFrame
    <2> QED
      BY <1>2, <1>3, <1>4, <2>1, <2>2, <2>3 DEF PassInv, CtlAt, Same
  <1>7. OperatorInv'
    BY DEF OperatorInv, Cleaning
  <1> QED
    BY <1>1, <1>5, <1>6, <1>7

-----------------------------------------------------------------------------
(* Steps that leave the launch as it is.                                    *)

(* No invocation comes to a rollback or to the end of its launch. *)
Plain == \A c \in Creators :
    cr'[c].pc \in {"undo", "done", "recycle"} => cr'[c].pc = cr[c].pc /\ cr'[c].vm = cr[c].vm

(* No DELETE is sent but of a launch that was given up. *)
Justified ==
    \/ dropping' \subseteq dropping \/ claim.deleting
    \/ rec.rollback \/ (bad /\ rec.phase = "materialized")

LEMMA GotoModest ==
  ASSUME TypeInv, WireInv, NEW c \in Creators, NEW pc, Goto(c, pc)
  PROVE  /\ pc \notin {"preflight", "reject"} => Modest
         /\ pc \notin {"undo", "done", "recycle"} => Plain
  <1>1. /\ cr'[c].pc = pc /\ cr'[c].vm = cr[c].vm
        /\ \A d \in Creators : d # c => cr'[d] = cr[d]
    BY DEF TypeInv, SoundLocals, Locals, Goto
  <1> QED
    BY <1>1 DEF Modest, Plain, WireInv

LEMMA FinishModest ==
  ASSUME TypeInv, WireInv, NEW c \in Creators, Finish(c)
  PROVE  Modest /\ Plain
  <1>1. /\ cr'[c].pc = "idle" /\ cr'[c].vm = None
        /\ \A d \in Creators : d # c => cr'[d] = cr[d]
    BY DEF TypeInv, SoundLocals, Locals, Finish, IdleCreate
  <1> QED
    BY <1>1 DEF Modest, Plain, WireInv

LEMMA StaleKeeps ==
  ASSUME TypeInv, Stale
  PROVE  SamePass
  BY DEF TypeInv, SoundControls, Controls, Stale, SamePass

LEMMA PublishFrame ==
  ASSUME PublishInv, Plain, claim.deleting => claim'.deleting, claim'.pid = claim.pid,
         rec'.phase = rec.phase, rec'.rollback = rec.rollback,
         rec'.receipts = rec.receipts, bad' = bad,
         rec'.created = rec.created \/ rec.phase = "issued",
         Justified,
         \A v \in VMs : vm'[v] = "gone" => vm[v] = "gone" \/ dropping # {},
         ctl'.pc \in Cleaning => ctl.pc \in Cleaning /\ ctl'.snap = ctl.snap,
         ctl'.pc = "choose" => ctl.pc = "choose"
  PROVE  PublishInv'
  <1> SUFFICES ASSUME ~claim'.deleting
               PROVE  PublishInv'
    BY DEF PublishInv
  <1>1. /\ rec'.rollback => rec'.phase = "issued"
        /\ rec'.receipts # {} => rec'.rollback
        /\ ctl'.pc \in Cleaning => /\ rec'.rollback
                                   /\ ctl'.snap.rollback /\ ctl'.snap.phase = "issued"
        /\ ctl'.pc # "choose"
    BY DEF PublishInv, CtlAt
  <1>2. dropping' # {} \/ (\E v \in VMs : vm'[v] = "gone") =>
           rec'.rollback \/ (bad' /\ rec'.phase = "materialized")
    BY DEF PublishInv, Justified
  <1>3. /\ \A c \in Creators : cr'[c].pc = "undo" => rec'.rollback
        /\ \A c \in Creators : cr'[c].pc \in {"done", "recycle"} =>
              rec'.phase = "materialized" /\ rec'.created = cr'[c].vm
        /\ \A c \in Creators : cr'[c].pc = "recycle" => bad'
    BY DEF PublishInv, Plain, At
  <1>4. claim'.pid # None => rec'.phase = "materialized" /\ rec'.created = claim'.pid
    BY DEF PublishInv
  <1> QED
    BY <1>1, <1>2, <1>3, <1>4 DEF PublishInv, CtlAt, At

\* A step of somebody else that changes nothing of the fence the invariants read.
LEMMA PlainStep ==
  ASSUME TypeInv, SafetyInv, Unmoved, Modest, Plain, SamePass, Same(rec', rec),
         claim'.prot = claim.prot, claim.deleting => claim'.deleting,
         claim'.pid = claim.pid, operator' = operator, bad' = bad, Justified
  PROVE  SafetyInv'
  <1>1. Coherent(rec)'
    BY DEF SafetyInv, EscapeInv, FenceInv, Coherent, Same, Unmoved
  <1>2. EscapeInv'
    <2>1. Calm
      BY UnmovedIsCalm DEF SafetyInv, EscapeInv
    <2>2. claim.prot => Accounts(rec)'
      BY <2>1, AccountsRecord DEF SafetyInv, EscapeInv, FenceInv, Same
    <2> QED
      BY <1>1, <2>1, <2>2, OtherFrame DEF SafetyInv, Same
  <1>3. PublishInv'
    BY PublishFrame DEF SafetyInv, Same, SamePass, Unmoved
  <1> QED
    BY <1>2, <1>3 DEF SafetyInv

LEMMA SameSame ==
  ASSUME NEW r
  PROVE  Same(r, r)
  BY DEF Same

LEMMA PlainLaunch ==
  ASSUME TypeInv, SafetyInv, NEW c \in Creators, Launch(c)
  PROVE  SafetyInv'
  <1> USE DEF SafetyInv, EscapeInv
  <1>0. Unmoved /\ SamePass /\ Same(rec', rec)
    BY SameSame DEF Launch, kube, cloud, Unmoved, SamePass
  <1>1. Modest /\ Plain
    <2>1. CASE cr' = [cr EXCEPT ![c].pc = "anchor", ![c].rb = TRUE]
      <3>1. /\ cr'[c].pc = "anchor" /\ cr'[c].vm = cr[c].vm
            /\ \A d \in Creators : d # c => cr'[d] = cr[d]
        BY <2>1 DEF TypeInv, SoundLocals, Locals
      <3> QED
        BY <3>1 DEF Modest, Plain, WireInv
    <2>2. ASSUME NEW v \in Live, cr' = [cr EXCEPT ![c].pc = "anchor", ![c].vm = v]
          PROVE  Modest /\ Plain
      <3>1. /\ cr'[c].pc = "anchor" /\ cr'[c].vm = v /\ vm[v] # "none"
            /\ \A d \in Creators : d # c => cr'[d] = cr[d]
        BY <2>2 DEF TypeInv, SoundLocals, Locals, Live
      <3> QED
        BY <3>1 DEF Modest, Plain, WireInv
    <2>3. CASE Goto(c, "authorize")
      BY <2>3, GotoModest
    <2> QED
      BY <2>1, <2>2, <2>3 DEF Launch
  <1> QED
    BY <1>0, <1>1, PlainStep DEF Launch, kube, cloud, Justified

LEMMA PlainAnswer ==
  ASSUME TypeInv, SafetyInv, NEW c \in Creators, Answer(c)
  PROVE  SafetyInv'
  <1>0. Unmoved /\ SamePass /\ Same(rec', rec)
    BY SameSame DEF Answer, kube, cloud, Unmoved, SamePass
  <1>1. /\ cr'[c].pc = "anchor" /\ cr'[c].vm = c /\ vm[c] # "none"
        /\ \A d \in Creators : d # c => cr'[d] = cr[d]
    BY DEF TypeInv, SoundLocals, Locals, Live, Answer
  <1>2. Modest /\ Plain
    BY <1>1 DEF Modest, Plain, WireInv, SafetyInv, EscapeInv
  <1> QED
    BY <1>0, <1>2, PlainStep DEF Answer, kube, cloud, Justified

\* The firewall and the marker of a record are no matter of the invariants.
LEMMA FirewallSame ==
  ASSUME rec \in SoundRecords
  PROVE  /\ Same([rec EXCEPT !.fw = "observed"], rec)
         /\ Same([rec EXCEPT !.marker = TRUE], rec)
  BY DEF SoundRecords, Records, Same

LEMMA PlainProtect ==
  ASSUME TypeInv, SafetyInv, NEW c \in Creators, Protect(c)
  PROVE  SafetyInv'
  <1>0. Unmoved /\ SamePass
    BY StaleKeeps DEF Protect, cloud, Unmoved
  <1>1. Same(rec', rec)
    BY FirewallSame, SameSame DEF Protect, TypeInv, KubeOK
  <1>2. Modest /\ Plain
    BY GotoModest DEF Protect, SafetyInv, EscapeInv
  <1> QED
    BY <1>0, <1>1, <1>2, PlainStep DEF Protect, cloud, Justified

LEMMA PlainName ==
  ASSUME TypeInv, SafetyInv, NEW c \in Creators, AuthorizeName(c) \/ ObserveName(c)
  PROVE  SafetyInv'
  <1>0. /\ Unmoved /\ SamePass /\ Same(rec', rec)
        /\ UNCHANGED <<claim, operator, dropping, bad>>
    BY StaleKeeps, SameSame DEF AuthorizeName, ObserveName, cloud, Unmoved
  <1>1. Modest /\ Plain
    BY GotoModest DEF AuthorizeName, ObserveName, SafetyInv, EscapeInv
  <1> QED
    BY <1>0, <1>1, PlainStep DEF Justified

LEMMA PlainPatch ==
  ASSUME TypeInv, SafetyInv, NEW c \in Creators, Patch(c)
  PROVE  SafetyInv'
  <1>0. Same(rec', rec) /\ UNCHANGED <<claim, operator, vm, posting, dropping, bad>>
    BY SameSame DEF Patch
  <1>1. SamePass
    BY StaleKeeps DEF Patch, SamePass
  <1>2. Unmoved
    <2>1. CASE UNCHANGED fip
      BY <1>0, <2>1 DEF Unmoved
    <2>2. CASE cr[c].vm \in Live /\ fip' = [fip EXCEPT ![cr[c].vm] = "named"]
      BY <1>0, <2>2 DEF Unmoved, Live, TypeInv, CloudOK
    <2> QED
      BY <2>1, <2>2 DEF Patch
  <1>3. Modest /\ Plain
    BY GotoModest, FinishModest DEF Patch, SafetyInv, EscapeInv
  <1> QED
    BY <1>0, <1>1, <1>2, <1>3, PlainStep DEF Justified

LEMMA PlainProtectionFails ==
  ASSUME TypeInv, SafetyInv, NEW c \in Creators, ProtectionFails(c)
  PROVE  SafetyInv'
  <1>0. Unmoved /\ SamePass /\ Same(rec', rec)
    BY SameSame DEF ProtectionFails, kube, cloud, Unmoved, SamePass
  <1>1. /\ cr'[c].pc = "rollback" /\ cr'[c].vm = cr[c].vm
        /\ \A d \in Creators : d # c => cr'[d] = cr[d]
    BY DEF TypeInv, SoundLocals, Locals, ProtectionFails
  <1>2. Modest /\ Plain
    BY <1>1 DEF Modest, Plain, WireInv, SafetyInv, EscapeInv
  <1> QED
    BY <1>0, <1>2, PlainStep DEF ProtectionFails, kube, cloud, Justified

LEMMA PlainAbandon ==
  ASSUME TypeInv, SafetyInv, NEW c \in Creators, Abandon(c)
  PROVE  SafetyInv'
  <1>0. Unmoved /\ SamePass /\ Same(rec', rec)
    BY SameSame DEF Abandon, kube, cloud, Unmoved, SamePass
  <1>1. Modest /\ Plain
    BY FinishModest DEF Abandon, SafetyInv, EscapeInv
  <1> QED
    BY <1>0, <1>1, PlainStep DEF Abandon, kube, cloud, Justified

\* An undone launch was rolled back, so its DELETE is justified.
LEMMA PlainUndoLaunch ==
  ASSUME TypeInv, SafetyInv, NEW c \in Creators, UndoLaunch(c)
  PROVE  SafetyInv'
  <1> USE DEF SafetyInv, EscapeInv
  <1>0. SamePass /\ Same(rec', rec) /\ UNCHANGED <<claim, operator, vm, posting, bad>>
    BY StaleKeeps, SameSame DEF UndoLaunch
  <1>1. Justified
    BY DEF UndoLaunch, PublishInv, Justified
  <1>2. Unmoved
    BY <1>0 DEF UndoLaunch, FinishDelete, Unmoved
  <1>3. Modest /\ Plain
    <2>1. cr' = cr \/ Finish(c)
      BY DEF UndoLaunch
    <2> QED
      BY <2>1, FinishModest DEF Modest, Plain, WireInv
  <1> QED
    BY <1>0, <1>1, <1>2, <1>3, PlainStep

LEMMA PlainVanish ==
  ASSUME TypeInv, SafetyInv, Vanish
  PROVE  SafetyInv'
  <1>0. Unmoved /\ SamePass /\ Same(rec', rec)
    BY SameSame DEF Vanish, cloud, Unmoved, SamePass
  <1>1. Modest /\ Plain
    BY DEF Vanish, Modest, Plain, WireInv, SafetyInv, EscapeInv
  <1>2. claim'.prot = claim.prot /\ claim'.deleting = claim.deleting /\ claim'.pid = claim.pid
    BY Zenon DEF Vanish, TypeInv, KubeOK, Claims
  <1> QED
    BY <1>0, <1>1, <1>2, PlainStep DEF Vanish, cloud, Justified

LEMMA PlainTerminate ==
  ASSUME TypeInv, SafetyInv, Terminate
  PROVE  SafetyInv'
  <1>0. SamePass /\ UNCHANGED <<operator, vm, posting, bad, cr>> /\ claim.deleting
    BY StaleKeeps DEF Terminate
  <1>1. claim'.prot = claim.prot /\ claim'.deleting = claim.deleting /\ claim'.pid = claim.pid
    BY Zenon DEF Terminate, TypeInv, KubeOK, Claims
  <1>2. Same(rec', rec)
    BY FirewallSame, SameSame, Zenon DEF Terminate, TypeInv, KubeOK
  <1>3. Unmoved
    BY <1>0 DEF Terminate, FinishDelete, Unmoved
  <1>4. Modest /\ Plain
    BY <1>0 DEF Modest, Plain, WireInv, SafetyInv, EscapeInv
  <1> QED
    BY <1>0, <1>1, <1>2, <1>3, <1>4, PlainStep DEF Justified

\* Deletion only weakens what is promised of the claim.
LEMMA PlainDeleteClaim ==
  ASSUME TypeInv, SafetyInv, DeleteClaim
  PROVE  SafetyInv'
  <1>0. Unmoved /\ SamePass /\ Same(rec', rec)
    BY SameSame, StaleKeeps DEF DeleteClaim, cloud, Unmoved
  <1>1. Modest /\ Plain
    BY DEF DeleteClaim, Modest, Plain, WireInv, SafetyInv, EscapeInv
  <1>2. claim'.prot = claim.prot /\ claim'.deleting /\ claim'.pid = claim.pid
    BY DEF DeleteClaim, TypeInv, KubeOK, Claims
  <1> QED
    BY <1>0, <1>1, <1>2, PlainStep DEF DeleteClaim, cloud, Justified

-----------------------------------------------------------------------------
(* Steps of a Create that change the fence.                                 *)

\* Before the issue CAS of a claim that nobody deletes there is nothing: no VM,
\* no request, no pass of the controller and no decision of the operator.
LEMMA UnissuedIsEmpty ==
  ASSUME TypeInv, SafetyInv, ~claim.deleting, rec.phase \in Unissued
  PROVE  /\ CtlAt("idle") /\ operator.result = "none"
         /\ \A c \in Creators : ~Sending(c) /\ vm[c] = "none"
         /\ rec.created = None /\ rec.receipts = {} /\ ~rec.rollback
         /\ dropping = {} /\ claim.pid = None
         /\ \A c \in Creators : cr[c].pc \notin {"undo", "done", "recycle"}
  <1> USE DEF SafetyInv, EscapeInv
  <1>1. CtlAt("idle") /\ operator.result = "none"
    BY DEF PassInv, OperatorInv
  <1>2. \A c \in Creators : ~Sending(c) /\ vm[c] = "none"
    <2>1. CASE claim.prot
      BY <2>1 DEF FenceInv, Accounts, Unissued
    <2>2. CASE ~claim.prot
      BY <2>2 DEF FenceInv, Quiet, VMs
    <2> QED
      BY <2>1, <2>2
  <1>3. rec.created = None /\ rec.receipts = {} /\ ~rec.rollback
    <2>1. rec.created \in VMs \cup {None} /\ rec.receipts \subseteq VMs
      BY RecordFields DEF TypeInv, KubeOK
    <2> QED
      BY <1>2, <2>1 DEF FenceInv, Coherent, PublishInv, VMs, Unissued
  <1> QED
    BY <1>1, <1>2, <1>3 DEF PublishInv, Unissued, At

\* From an empty launch: nothing is promised but of the issue.
LEMMA EmptyFrame ==
  ASSUME TypeInv, SafetyInv, ~claim.deleting, rec.phase \in Unissued,
         UNCHANGED <<vm, fip, posting, dropping, bad, operator>>, SamePass,
         claim'.prot, claim'.pid = claim.pid, ~claim'.deleting,
         rec'.created = None, rec'.receipts = {}, ~rec'.rollback,
         rec'.phase \in {"reserved", "issued"}, rec'.phase = "issued" => rec'.issue # None,
         \A c \in Creators :
            /\ cr'[c].pc \in {"preflight", "reject"} => cr'[c].issue = c
            /\ cr'[c].pc = "preflight" => rec'.issue = c /\ rec'.phase = "issued"
            /\ cr'[c].pc \notin {"undo", "done", "recycle"}
            /\ cr'[c].vm # None => vm[cr'[c].vm] # "none"
  PROVE  SafetyInv'
  <1> USE DEF SafetyInv, EscapeInv
  <1>1. /\ CtlAt("idle") /\ operator.result = "none"
        /\ \A c \in Creators : ~Sending(c) /\ vm[c] = "none"
        /\ dropping = {} /\ claim.pid = None
    BY UnissuedIsEmpty
  <1>2. WireInv'
    BY <1>1 DEF WireInv, Sending
  <1>3. \A c \in Creators : Sending(c)' => rec'.issue = c /\ rec'.phase = "issued"
    BY <1>1 DEF Sending, At
  <1>4. FenceInv'
    <2>1. Coherent(rec)'
      BY DEF Coherent, Unissued
    <2>2. Accounts(rec)'
      BY <1>1, <1>3 DEF Accounts
    <2> QED
      BY <2>1, <2>2 DEF FenceInv
  <1>5. PassInv' /\ OperatorInv'
    BY <1>1 DEF PassInv, OperatorInv, SamePass, CtlAt, Cleaning, Reaped
  <1>6. PublishInv'
    BY <1>1, Zenon DEF PublishInv, CtlAt, At, SamePass, Cleaning, VMs
  <1> QED
    BY <1>2, <1>4, <1>5, <1>6

LEMMA SafeStart ==
  ASSUME TypeInv, SafetyInv, NEW c \in Creators, Start(c)
  PROVE  SafetyInv'
  <1> USE DEF SafetyInv, EscapeInv
  <1>0. UNCHANGED <<vm, fip, posting, dropping, bad, operator>> /\ ~claim.deleting
    BY DEF Start, cloud
  <1>1. /\ cr'[c].pc = "launch" /\ cr'[c].vm = rec.created
        /\ \A d \in Creators : d # c => cr'[d] = cr[d]
    BY DEF Start, TypeInv
  <1>2. CASE /\ rec.phase = "none"
             /\ rec' = [NoFence EXCEPT !.phase = "reserved", !.fw = "intent"]
             /\ claim' = [claim EXCEPT !.prot = TRUE]
             /\ Stale
    <2>1. rec.phase \in Unissued
      BY <1>2 DEF Unissued
    <2>2. /\ \A d \in Creators : ~Sending(d) /\ cr[d].pc \notin {"undo", "done", "recycle"}
          /\ rec.created = None
      BY <1>0, <2>1, UnissuedIsEmpty, Zenon
    <2>3. SamePass
      BY <1>2, StaleKeeps
    <2>4. claim'.prot /\ claim'.pid = claim.pid /\ ~claim'.deleting
      BY <1>0, <1>2 DEF TypeInv, KubeOK, Claims
    <2>5. rec'.phase = "reserved" /\ rec'.created = None /\ rec'.receipts = {} /\ ~rec'.rollback
      BY <1>2 DEF NoFence
    <2>6. \A d \in Creators :
            /\ cr'[d].pc \in {"preflight", "reject"} => cr'[d].issue = d
            /\ cr'[d].pc # "preflight"
            /\ cr'[d].pc \notin {"undo", "done", "recycle"}
            /\ cr'[d].vm # None => vm[cr'[d].vm] # "none"
      BY <1>1, <2>2 DEF WireInv, Sending, At
    <2> QED
      BY <1>0, <2>1, <2>3, <2>4, <2>5, <2>6, EmptyFrame, Zenon
  <1>3. CASE UNCHANGED <<rec, claim, ctl>>
    <2>1. Modest /\ Plain
      <3>1. cr'[c].vm # None => vm[cr'[c].vm] # "none"
        BY <1>1 DEF FenceInv, Coherent
      <3>2. Plain
        BY <1>1 DEF Plain
      <3> QED
        BY <1>1, <3>1, <3>2 DEF Modest, WireInv
    <2>2. Unmoved /\ SamePass /\ Same(rec', rec)
      BY <1>0, <1>3, SameSame DEF Unmoved, SamePass
    <2> QED
      BY <1>0, <1>3, <2>1, <2>2, PlainStep DEF Justified
  <1> QED
    BY <1>2, <1>3 DEF Start

LEMMA SafeAuthorize ==
  ASSUME TypeInv, SafetyInv, NEW c \in Creators, Authorize(c)
  PROVE  SafetyInv'
  <1> USE DEF SafetyInv, EscapeInv
  <1>0. /\ UNCHANGED <<claim, vm, fip, posting, dropping, bad, operator>>
        /\ ~claim.deleting /\ claim.prot /\ rec.phase \in Unissued
    BY DEF Authorize, cloud, CanAuthorize, Unissued
  <1>1. /\ \A d \in Creators : ~Sending(d) /\ cr[d].pc \notin {"undo", "done", "recycle"}
        /\ rec.created = None /\ rec.receipts = {} /\ ~rec.rollback
    BY <1>0, UnissuedIsEmpty
  <1>2. /\ cr'[c].pc \in {"preflight", "reject"} /\ cr'[c].issue = c /\ cr'[c].vm = cr[c].vm
        /\ \A d \in Creators : d # c => cr'[d] = cr[d]
    <2>1. PICK pc \in {"preflight", "reject"} :
             cr' = [cr EXCEPT ![c].pc = pc, ![c].issue = c]
      BY Zenon DEF Authorize
    <2> QED
      BY <2>1 DEF TypeInv, SoundLocals, Locals
  <1>3. SamePass
    BY StaleKeeps DEF Authorize
  <1>4. /\ rec'.phase = "issued" /\ rec'.issue = c /\ c # None
        /\ rec'.created = None /\ rec'.receipts = {} /\ ~rec'.rollback
    BY <1>1, NoneAssumption DEF Authorize, Authorized, TypeInv, KubeOK, SoundRecords, Records
  <1>5. \A d \in Creators :
            /\ cr'[d].pc \in {"preflight", "reject"} => cr'[d].issue = d
            /\ cr'[d].pc = "preflight" => d = c
            /\ cr'[d].pc \notin {"undo", "done", "recycle"}
            /\ cr'[d].vm # None => vm[cr'[d].vm] # "none"
    BY <1>1, <1>2 DEF WireInv, Sending, At
  <1> QED
    BY <1>0, <1>3, <1>4, <1>5, EmptyFrame, Zenon

LEMMA SafePreflight ==
  ASSUME TypeInv, SafetyInv, NEW c \in Creators, Preflight(c)
  PROVE  SafetyInv'
  <1> USE DEF SafetyInv, EscapeInv
  <1>0. /\ UNCHANGED <<claim, rec, operator, vm, fip, dropping, bad, ctl>>
        /\ At(c, "preflight")
    BY DEF Preflight, kube
  <1>1. /\ cr'[c].pc \in {"await", "reject"} /\ cr'[c].vm = cr[c].vm /\ cr'[c].issue = cr[c].issue
        /\ \A d \in Creators : d # c => cr'[d] = cr[d]
        /\ cr'[c].pc = "reject" => posting' = posting
    BY DEF Preflight, Goto, TypeInv, SoundLocals, Locals
  <1>2. posting' = posting \/ posting' = posting \cup {c}
    BY DEF Preflight
  <1>3. Calm
    <2>1. WireInv'
      BY <1>0, <1>1, <1>2 DEF WireInv, At
    <2>2. \A d \in Creators : Sending(d)' => Sending(d)
      BY <1>0, <1>1, <1>2 DEF Sending, At
    <2> QED
      BY <1>0, <2>1, <2>2 DEF Calm
  <1>4. Coherent(rec)' /\ SamePass
    BY <1>0 DEF FenceInv, Coherent, SamePass
  <1>5. claim.prot => Accounts(rec)'
    BY <1>0, <1>3, AccountsRecord DEF FenceInv
  <1>6. EscapeInv'
    BY <1>0, <1>3, <1>4, <1>5, OtherFrame
  <1>7. PublishInv'
    BY <1>0, <1>1, PublishFrame DEF Plain, Justified
  <1> QED
    BY <1>6, <1>7

\* The fields of a rejected, an anchored and a materialized record.
LEMMA StoredFields ==
  ASSUME rec \in SoundRecords, NEW v
  PROVE  /\ /\ Rejected.phase = "rejected" /\ Rejected.issue = rec.issue
            /\ Rejected.created = rec.created /\ Rejected.receipts = rec.receipts
            /\ Rejected.rollback = rec.rollback
         /\ /\ Materialized.phase = "materialized" /\ Materialized.issue = rec.issue
            /\ Materialized.created = rec.created /\ Materialized.receipts = rec.receipts
            /\ Materialized.rollback = rec.rollback
            /\ Materialized.unresolved = rec.unresolved /\ Materialized.resolved = rec.resolved
         /\ \A r \in {Anchored(v), [Anchored(v) EXCEPT !.fw = "observed"]} :
               /\ r.phase = rec.phase /\ r.issue = rec.issue /\ r.created = v
               /\ r.receipts = rec.receipts /\ r.rollback = rec.rollback
               /\ r.unresolved = rec.unresolved /\ r.resolved = rec.resolved
  BY DEF SoundRecords, Records, Rejected, Materialized, Anchored

\* The attempt of an invocation that sent nothing left nothing: no other was
\* issued.
LEMMA SafeMarkRejected ==
  ASSUME TypeInv, SafetyInv, NEW c \in Creators, MarkRejected(c)
  PROVE  SafetyInv'
  <1> USE DEF SafetyInv, EscapeInv
  <1>0. /\ UNCHANGED <<claim, operator, vm, fip, posting, dropping, bad>> /\ SamePass
        /\ Modest /\ Plain
    BY StaleKeeps, FinishModest DEF MarkRejected, cloud
  <1>1. /\ rec.phase = "issued" /\ rec.issue = c /\ rec.created = None
        /\ rec.receipts = {} /\ ~rec.rollback /\ claim.prot
    BY DEF MarkRejected, CanReject, WireInv, At
  <1>2. /\ rec'.phase = "rejected" /\ rec'.issue = c /\ rec'.created = None
        /\ rec'.receipts = {} /\ ~rec'.rollback /\ c # None
    BY <1>1, StoredFields, NoneAssumption DEF MarkRejected, TypeInv, KubeOK
  <1>3. \A d \in Creators : ~Sending(d) /\ vm[d] = "none" /\ fip[d] = "none"
    <2>1. ~Sending(c) /\ vm[c] = "none"
      BY DEF MarkRejected, Sending, WireInv, At
    <2>2. \A d \in Creators : ~Sending(d) /\ vm[d] = "none"
      BY <1>1, <2>1 DEF FenceInv, Accounts
    <2> QED
      BY <2>2 DEF WireInv
  <1>4. Calm
    BY <1>0, UnmovedIsCalm DEF Unmoved
  <1>5. Coherent(rec)' /\ Accounts(rec)'
    BY <1>0, <1>2, <1>3, <1>4 DEF Coherent, Accounts, Calm, VMs
  <1>6. EscapeInv'
    BY <1>0, <1>2, <1>4, <1>5, OtherFrame DEF Unissued
  <1>7. PublishInv'
    BY <1>0, <1>1, <1>2 DEF PublishInv, Plain, SamePass, CtlAt, At
  <1> QED
    BY <1>6, <1>7

LEMMA SafeRecordCreatedVM ==
  ASSUME TypeInv, SafetyInv, NEW c \in Creators, RecordCreatedVM(c)
  PROVE  SafetyInv'
  <1> USE DEF SafetyInv, EscapeInv
  <1> DEFINE v == cr[c].vm
  <1>0. /\ UNCHANGED <<claim, operator, vm, fip, posting, dropping, bad>> /\ SamePass
        /\ Modest /\ Plain
    BY StaleKeeps, GotoModest DEF RecordCreatedVM, cloud
  <1>1. /\ claim.prot /\ v \in VMs \cup {None}
        /\ v = rec.created \/ (rec.phase = "issued" /\ ~rec.rollback)
    BY LocalFields DEF RecordCreatedVM, CanAnchor, TypeInv
  <1>2. /\ rec'.phase = rec.phase /\ rec'.issue = rec.issue /\ rec'.created = v
        /\ rec'.receipts = rec.receipts /\ rec'.rollback = rec.rollback
        /\ rec'.unresolved = rec.unresolved /\ rec'.resolved = rec.resolved
    BY StoredFields DEF RecordCreatedVM, TypeInv, KubeOK
  <1>3. v # None => v = rec.issue /\ vm[v] # "none"
    BY <1>1 DEF WireInv, FenceInv, Accounts, VMs
  <1> HIDE DEF v
  <1>4. Calm
    BY <1>0, UnmovedIsCalm DEF Unmoved
  <1>5. Coherent(rec)'
    BY <1>0, <1>1, <1>2, <1>3 DEF FenceInv, Coherent
  <1>6. Accounts(rec)'
    BY <1>1, <1>2, <1>4, AccountsRecord DEF FenceInv
  <1>7. EscapeInv'
    BY <1>0, <1>2, <1>4, <1>5, <1>6, OtherFrame
  <1>8. PublishInv'
    BY <1>0, <1>1, <1>2, PublishFrame DEF Justified, SamePass
  <1> QED
    BY <1>7, <1>8

\* A rollback says what it knows of the address: its receipt, or that it has none.
LEMMA RolledBackFields ==
  ASSUME NEW r \in SoundRecords, NEW v, NEW receipt \in BOOLEAN
  PROVE  LET R == RolledBack(r, v, receipt)
         IN  /\ R.phase = r.phase /\ R.issue = r.issue /\ R.created = r.created /\ R.rollback
             /\ \A w \in R.receipts : w \in r.receipts \/ (receipt /\ w = v)
             /\ v \in R.receipts \/ R.unresolved \/ (r.rollback /\ R = r)
  <1>1. CASE r.rollback /\ (~receipt \/ v \in r.receipts)
    BY <1>1 DEF RolledBack
  <1>2. CASE ~(r.rollback /\ (~receipt \/ v \in r.receipts))
    <2> DEFINE rs == IF receipt THEN r.receipts \cup {v} ELSE r.receipts
               R == [r EXCEPT !.rollback = TRUE, !.resolved = FALSE,
                              !.unresolved = ~receipt, !.receipts = rs]
    <2>1. RolledBack(r, v, receipt) = R
      BY <1>2 DEF RolledBack
    <2>2. (\A w \in rs : w \in r.receipts \/ (receipt /\ w = v)) /\ (receipt => v \in rs)
      OBVIOUS
    <2> HIDE DEF rs
    <2>3. /\ R.phase = r.phase /\ R.issue = r.issue /\ R.created = r.created
          /\ R.rollback = TRUE /\ R.receipts = rs /\ R.unresolved = ~receipt
      BY DEF SoundRecords, Records
    <2> QED
      BY <2>1, <2>2, <2>3, Zenon
  <1> QED
    BY <1>1, <1>2

\* A rollback of the anchored VM leaves a coherent record that accounts for it.
LEMMA RolledBackCoherent ==
  ASSUME TypeInv, EscapeInv, Calm, UNCHANGED vm, claim.prot, NEW receipt \in BOOLEAN,
         receipt => rec.created # None, rec.phase = "issued",
         rec' = RolledBack(rec, rec.created, receipt)
  PROVE  Coherent(rec)' /\ Accounts(rec)'
  <1> USE DEF EscapeInv, FenceInv
  <1>1. /\ rec'.phase = rec.phase /\ rec'.issue = rec.issue /\ rec'.created = rec.created
        /\ \A w \in rec'.receipts : w \in rec.receipts \/ (receipt /\ w = rec.created)
        /\ rec.created \in rec'.receipts \/ rec'.unresolved \/ (rec.rollback /\ rec' = rec)
    BY RolledBackFields DEF TypeInv, KubeOK
  <1>2. Coherent(rec)'
    <2>1. rec'.phase \notin Unissued => rec'.issue # None
      BY <1>1 DEF Coherent
    <2>2. rec'.created # None => rec'.created = rec'.issue /\ vm'[rec'.created] # "none"
      BY <1>1 DEF Coherent
    <2>3. \A v \in rec'.receipts : v = rec'.issue /\ vm'[v] # "none"
      BY <1>1, <2>2 DEF Coherent
    <2>4. rec'.created # None /\ rec'.created \notin rec'.receipts =>
             rec'.unresolved \/ rec'.resolved
      BY <1>1 DEF Coherent
    <2> QED
      BY <2>1, <2>2, <2>3, <2>4 DEF Coherent
  <1> QED
    BY <1>1, <1>2, AccountsRecord

LEMMA SafeChooseRollback ==
  ASSUME TypeInv, SafetyInv, NEW c \in Creators, ChooseRollback(c)
  PROVE  SafetyInv'
  <1> USE DEF SafetyInv, EscapeInv
  <1>0. /\ UNCHANGED <<claim, operator, vm, fip, posting, dropping, bad>> /\ SamePass /\ Modest
    BY StaleKeeps, GotoModest DEF ChooseRollback, cloud
  <1>1. /\ cr'[c].pc = "undo" /\ \A d \in Creators : d # c => cr'[d] = cr[d]
    BY DEF ChooseRollback, Goto, TypeInv, SoundLocals, Locals
  <1>2. /\ rec.created = cr[c].vm /\ rec.created \in VMs /\ rec.phase = "issued"
        /\ claim.prot /\ cr[c].receipt \in BOOLEAN
    BY LocalFields DEF ChooseRollback, CanRollback, TypeInv, At
  <1>3. rec' = RolledBack(rec, rec.created, cr[c].receipt)
    BY <1>2 DEF ChooseRollback
  <1>4. Calm
    BY <1>0, UnmovedIsCalm DEF Unmoved
  <1>5. Coherent(rec)' /\ Accounts(rec)'
    BY <1>0, <1>2, <1>3, <1>4, RolledBackCoherent, NoneAssumption DEF VMs
  <1>6. rec'.phase = "issued" /\ rec'.rollback
    BY <1>2, <1>3, RolledBackFields DEF TypeInv, KubeOK
  <1>7. EscapeInv'
    BY <1>0, <1>2, <1>4, <1>5, <1>6, OtherFrame, Zenon
  <1>8. PublishInv'
    BY <1>0, <1>1, <1>2, <1>6, Zenon DEF PublishInv, SamePass, CtlAt, At
  <1> QED
    BY <1>7, <1>8

LEMMA SafeMarkMaterialized ==
  ASSUME TypeInv, SafetyInv, NEW c \in Creators, MarkMaterialized(c)
  PROVE  SafetyInv'
  <1> USE DEF SafetyInv, EscapeInv
  <1>0. /\ UNCHANGED <<claim, operator, vm, fip, posting, dropping, bad>> /\ SamePass /\ Modest
    BY StaleKeeps, GotoModest DEF MarkMaterialized, cloud
  <1>1. /\ cr'[c].pc = "done" /\ cr'[c].vm = cr[c].vm
        /\ \A d \in Creators : d # c => cr'[d] = cr[d]
    BY DEF MarkMaterialized, Goto, TypeInv, SoundLocals, Locals
  <1>2. /\ claim.prot /\ rec.created = cr[c].vm
        /\ \/ rec.phase = "materialized"
           \/ rec.phase = "issued" /\ ~rec.rollback /\ rec.receipts = {}
    BY DEF MarkMaterialized, CanMaterialize
  <1>3. /\ rec'.phase = "materialized" /\ rec'.issue = rec.issue /\ rec'.created = rec.created
        /\ rec'.receipts = rec.receipts /\ rec'.rollback = rec.rollback
        /\ rec'.unresolved = rec.unresolved /\ rec'.resolved = rec.resolved
    BY StoredFields DEF MarkMaterialized, TypeInv, KubeOK
  <1>4. Calm
    BY <1>0, UnmovedIsCalm DEF Unmoved
  <1>5. Coherent(rec)'
    BY <1>0, <1>2, <1>3, Zenon DEF FenceInv, Coherent, Unissued
  <1>6. Accounts(rec)'
    BY <1>2, <1>3, <1>4, AccountsRecord DEF FenceInv
  <1>7. EscapeInv'
    BY <1>0, <1>3, <1>4, <1>5, <1>6, OtherFrame, Zenon DEF Unissued
  <1>8. PublishInv'
    BY <1>0, <1>1, <1>2, <1>3, ZenonT(30) DEF PublishInv, SamePass, CtlAt, At
  <1> QED
    BY <1>7, <1>8

LEMMA SafeReturn ==
  ASSUME TypeInv, SafetyInv, NEW c \in Creators, Return(c)
  PROVE  SafetyInv'
  <1> USE DEF SafetyInv, EscapeInv
  <1>0. /\ UNCHANGED <<rec, operator, vm, fip, posting, dropping, bad>> /\ SamePass
        /\ Modest /\ Plain /\ At(c, "done")
    BY StaleKeeps, FinishModest DEF Return, cloud
  <1>1. claim'.prot = claim.prot /\ claim'.deleting = claim.deleting /\ claim'.pid = cr[c].vm
    BY DEF Return, TypeInv, KubeOK, Claims
  <1>2. Calm
    BY <1>0, UnmovedIsCalm DEF Unmoved
  <1>3. Coherent(rec)' /\ (claim.prot => Accounts(rec)')
    BY <1>0, <1>2, AccountsRecord, Zenon DEF FenceInv, Coherent
  <1>4. EscapeInv'
    BY <1>0, <1>1, <1>2, <1>3, OtherFrame
  <1>5. PublishInv'
    BY <1>0, <1>1 DEF PublishInv, Plain, SamePass, CtlAt, At
  <1> QED
    BY <1>4, <1>5

LEMMA SafeKnownBad ==
  ASSUME TypeInv, SafetyInv, NEW c \in Creators, KnownBad(c)
  PROVE  SafetyInv'
  <1> USE DEF SafetyInv, EscapeInv
  <1>0. /\ UNCHANGED <<claim, rec, operator, vm, fip, posting, dropping, bad, ctl>>
        /\ Modest /\ At(c, "done") /\ bad
    BY GotoModest DEF KnownBad, kube, cloud
  <1>1. /\ cr'[c].pc = "recycle" /\ cr'[c].vm = cr[c].vm
        /\ \A d \in Creators : d # c => cr'[d] = cr[d]
    BY DEF KnownBad, Goto, TypeInv, SoundLocals, Locals
  <1>2. Calm
    BY <1>0, UnmovedIsCalm DEF Unmoved
  <1>3. Coherent(rec)' /\ (claim.prot => Accounts(rec)')
    BY <1>0, <1>2, AccountsRecord, Zenon DEF FenceInv, Coherent
  <1>4. EscapeInv'
    BY <1>0, <1>2, <1>3, OtherFrame DEF SamePass
  <1>5. PublishInv'
    BY <1>0, <1>1, ZenonT(30) DEF PublishInv, CtlAt, At
  <1> QED
    BY <1>4, <1>5

\* A recycled VM was materialized, or its claim is being deleted.
LEMMA SafeRecycle ==
  ASSUME TypeInv, SafetyInv, NEW c \in Creators, Recycle(c)
  PROVE  SafetyInv'
  <1> USE DEF SafetyInv, EscapeInv
  <1>0. SamePass /\ UNCHANGED <<operator, vm, posting, bad>>
    BY StaleKeeps DEF Recycle
  <1>1. /\ claim'.prot = claim.prot /\ (claim.deleting => claim'.deleting)
        /\ claim'.pid = claim.pid
    BY Zenon DEF Recycle, TypeInv, KubeOK, Claims
  <1>2. Same(rec', rec)
    BY FirewallSame, SameSame, Zenon DEF Recycle, TypeInv, KubeOK
  <1>3. Unmoved
    BY <1>0 DEF Recycle, FinishDelete, Unmoved
  <1>4. Modest /\ Plain
    <2>1. cr' = cr \/ Finish(c)
      BY Zenon DEF Recycle
    <2> QED
      BY <2>1, FinishModest DEF Modest, Plain, WireInv
  <1>5. Justified
    <2>1. claim.deleting \/ (bad /\ rec.phase = "materialized")
      BY DEF Recycle, PublishInv, At
    <2> QED
      BY <2>1 DEF Justified
  <1> QED
    BY <1>0, <1>1, <1>2, <1>3, <1>4, <1>5, PlainStep

-----------------------------------------------------------------------------
(* Steps of the cloud and of the operator.                                  *)

LEMMA SafePostSettles ==
  ASSUME TypeInv, SafetyInv, NEW c \in Creators, PostSettles(c)
  PROVE  SafetyInv'
  <1> USE DEF SafetyInv, EscapeInv
  <1>0. UNCHANGED <<claim, rec, operator, dropping, bad, cr, ctl>>
    BY DEF PostSettles, kube
  <1>1. /\ c \in posting /\ posting' = posting \ {c}
        /\ \A d \in Creators : d # c => vm'[d] = vm[d] /\ fip'[d] = fip[d]
        /\ \/ vm'[c] = "live" /\ fip'[c] = "auto"
           \/ vm'[c] = vm[c] /\ fip'[c] = fip[c]
    BY DEF PostSettles, TypeInv, CloudOK, VMs
  <1>2. Calm
    <2>1. Sending(c)
      BY <1>1 DEF Sending
    <2>2. WireInv'
      <3>1. \A v \in Creators : vm[v] # "none" => vm'[v] # "none"
        BY <1>1
      <3>2. \A d \in Creators : cr[d].vm # None => cr[d].vm \in Creators
        BY LocalFields DEF TypeInv, VMs
      <3>3. ASSUME NEW d \in Creators
            PROVE  cr'[d].vm # None => vm'[cr'[d].vm] # "none"
        BY <1>0, <3>1, <3>2 DEF WireInv
      <3>4. ASSUME NEW d \in Creators, d # c
            PROVE  /\ d \in posting' => vm'[d] = "none"
                   /\ cr'[d].pc \in {"preflight", "reject"}
                      => d \notin posting' /\ vm'[d] = "none" /\ cr'[d].issue = d
                   /\ fip'[d] # "none" => vm'[d] # "none"
                   /\ fip'[d] \in {"auto", "named"} => vm'[d] = "live"
        BY <1>0, <1>1, <3>4 DEF WireInv
      <3>5. /\ c \notin posting' /\ cr'[c].pc \notin {"preflight", "reject"}
            /\ fip'[c] # "none" => vm'[c] # "none"
            /\ fip'[c] \in {"auto", "named"} => vm'[c] = "live"
        BY <1>0, <1>1 DEF WireInv
      <3> QED
        BY <3>3, <3>4, <3>5 DEF WireInv
    <2>3. \A d \in Creators : Sending(d)' => Sending(d)
      BY <1>0, <1>1, <2>1, Zenon DEF Sending, At
    <2> QED
      BY <1>1, <2>1, <2>2, <2>3 DEF Calm, VMs
  <1>3. Coherent(rec)'
    <2>1. \A v \in VMs : vm[v] # "none" => vm'[v] # "none"
      BY <1>1, Zenon DEF VMs
    <2>2. rec.created \in VMs \cup {None} /\ rec.receipts \subseteq VMs
      BY RecordFields DEF TypeInv, KubeOK
    <2> QED
      BY <1>0, <2>1, <2>2, Zenon DEF FenceInv, Coherent
  <1>4. claim.prot => Accounts(rec)'
    BY <1>0, <1>2, AccountsRecord DEF FenceInv
  <1>5. EscapeInv'
    BY <1>0, <1>2, <1>3, <1>4, OtherFrame DEF SamePass
  <1>6. PublishInv'
    <2>1. \A v \in VMs : vm'[v] = "gone" => vm[v] = "gone"
      BY <1>1 DEF VMs
    <2> QED
      BY <1>0, <2>1, PublishFrame DEF Justified, Plain
  <1> QED
    BY <1>5, <1>6

LEMMA SafeDeleteCommits ==
  ASSUME TypeInv, SafetyInv, NEW v \in VMs, DeleteCommits(v)
  PROVE  SafetyInv'
  <1> USE DEF SafetyInv, EscapeInv
  <1>0. UNCHANGED <<claim, rec, operator, posting, bad, cr, ctl>>
    BY DEF DeleteCommits, kube
  <1>1. /\ v \in dropping /\ dropping' = dropping \ {v} /\ vm[v] = "live" /\ vm'[v] = "gone"
        /\ \A d \in VMs : d # v => vm'[d] = vm[d] /\ fip'[d] = fip[d]
        /\ fip'[v] \in {"none", "loose", "looseNamed"}
    BY DEF DeleteCommits, TypeInv, CloudOK, Live
  <1>2. Calm
    <2>1. Sending(v)
      BY <1>1 DEF Sending
    <2>2. WireInv'
      <3>1. \A d \in VMs : vm[d] # "none" <=> vm'[d] # "none"
        BY <1>1
      <3>2. \A d \in Creators : cr[d].vm # None => cr[d].vm \in VMs
        BY LocalFields DEF TypeInv
      <3>3. ASSUME NEW d \in Creators
            PROVE  cr'[d].vm # None => vm'[cr'[d].vm] # "none"
        BY <1>0, <3>1, <3>2 DEF WireInv
      <3>4. ASSUME NEW d \in Creators, d # v
            PROVE  /\ d \in posting' => vm'[d] = "none"
                   /\ cr'[d].pc \in {"preflight", "reject"}
                      => d \notin posting' /\ vm'[d] = "none" /\ cr'[d].issue = d
                   /\ fip'[d] # "none" => vm'[d] # "none"
                   /\ fip'[d] \in {"auto", "named"} => vm'[d] = "live"
        BY <1>0, <1>1, <3>4 DEF WireInv, VMs
      <3>5. /\ v \notin posting' /\ cr'[v].pc \notin {"preflight", "reject"}
            /\ vm'[v] # "none" /\ fip'[v] \notin {"auto", "named"}
        BY <1>0, <1>1 DEF WireInv, VMs
      <3> QED
        BY <3>3, <3>4, <3>5 DEF WireInv
    <2>3. \A d \in Creators : Sending(d)' => Sending(d)
      BY <1>0, <1>1 DEF Sending, At, VMs
    <2> QED
      BY <1>1, <2>1, <2>2, <2>3 DEF Calm
  <1>3. Coherent(rec)'
    <2>1. \A d \in VMs : vm[d] # "none" => vm'[d] # "none"
      BY <1>1
    <2>2. rec.created \in VMs \cup {None} /\ rec.receipts \subseteq VMs
      BY RecordFields DEF TypeInv, KubeOK
    <2> QED
      BY <1>0, <2>1, <2>2 DEF FenceInv, Coherent
  <1>4. claim.prot => Accounts(rec)'
    BY <1>0, <1>2, AccountsRecord DEF FenceInv
  <1>5. EscapeInv'
    BY <1>0, <1>2, <1>3, <1>4, OtherFrame DEF SamePass
  <1>6. PublishInv'
    BY <1>0, <1>1, PublishFrame DEF Justified, Plain
  <1> QED
    BY <1>5, <1>6

LEMMA SafeDeleteLost ==
  ASSUME TypeInv, SafetyInv, NEW v \in VMs, DeleteLost(v)
  PROVE  SafetyInv'
  <1>0. UNCHANGED <<claim, rec, operator, vm, fip, posting, bad, cr, ctl>> /\ dropping' \subseteq dropping
    BY DEF DeleteLost, kube
  <1>1. Unmoved /\ Modest /\ Plain /\ SamePass /\ Same(rec', rec)
    BY <1>0, SameSame DEF Unmoved, Modest, Plain, SamePass, SafetyInv, EscapeInv, WireInv
  <1> QED
    BY <1>0, <1>1, PlainStep DEF Justified

LEMMA KeptRecord ==
  ASSUME Coherent(rec), Accounts(rec), UNCHANGED <<rec, vm, fip, posting, cr>>
  PROVE  Coherent(rec)' /\ Accounts(rec)'
  <1>1. Coherent(rec)'
    BY DEF Coherent
  <1> QED
    BY <1>1 DEF Accounts, Sending, At

\* Support's word is taken when nothing is on the wire and nobody can send.
LEMMA SafeOperatorDecides ==
  ASSUME TypeInv, SafetyInv, OperatorDecides
  PROVE  SafetyInv'
  <1> USE DEF SafetyInv, EscapeInv
  <1>0. UNCHANGED <<claim, rec, vm, fip, posting, dropping, bad, cr, ctl>>
    BY DEF OperatorDecides, cloud
  <1>1. claim.prot /\ rec.phase \notin Unissued /\ CtlAt("idle")
    BY DEF OperatorDecides, Unissued
  <1>2. operator'.result = "noResult" => \A c \in Creators : ~Sending(c)
    BY DEF OperatorDecides, Sending, At, Live, VMs
  <1>3. WireInv' /\ FenceInv' /\ PassInv'
    <2>1. WireInv'
      BY <1>0 DEF WireInv
    <2>2. Coherent(rec)' /\ Accounts(rec)'
      BY <1>0, <1>1, KeptRecord DEF FenceInv
    <2>3. FenceInv'
      BY <1>0, <1>1, <2>2 DEF FenceInv
    <2>4. PassInv'
      BY <1>0, <1>1 DEF PassInv, CtlAt, Cleaning, Reaped
    <2> QED
      BY <2>1, <2>3, <2>4
  <1>4. OperatorInv'
    BY <1>0, <1>1, <1>2 DEF OperatorInv, Sending, At, CtlAt
  <1>5. PublishInv'
    BY <1>0, PublishFrame, Zenon DEF Justified, Plain
  <1> QED
    BY <1>3, <1>4, <1>5

-----------------------------------------------------------------------------
(* Steps of the create-fence controller.                                    *)

\* A step of the controller that leaves the cloud alone is calm.
LEMMA ControlCalm ==
  ASSUME WireInv, Unmoved, UNCHANGED cr
  PROVE  Calm /\ Plain
  <1>1. Modest
    BY DEF Modest, WireInv
  <1> QED
    BY <1>1, UnmovedIsCalm DEF Plain

LEMMA SafeCtlRead ==
  ASSUME TypeInv, SafetyInv, CtlRead
  PROVE  SafetyInv'
  <1> USE DEF SafetyInv, EscapeInv
  <1>0. UNCHANGED <<claim, rec, operator, vm, fip, posting, dropping, bad, cr>> /\ claim.prot
    BY Zenon DEF CtlRead, kube, cloud
  <1>1. /\ ctl'.snap = rec
        /\ ctl'.pc = IF ChooseBranch(rec) THEN "choose"
                     ELSE IF operator.result # "none" THEN "operator"
                     ELSE IF claim.deleting \/ rec.rollback THEN "clean"
                     ELSE "protect"
    BY Zenon DEF CtlRead
  <1>2. \/ ChooseBranch(rec) \/ claim.deleting \/ operator.result # "none"
        \/ rec.phase = "issued"
    BY DEF CtlRead
  <1>3. WireInv' /\ FenceInv' /\ Coherent(ctl.snap)' /\ Accounts(ctl.snap)'
    <2>1. WireInv'
      BY <1>0 DEF WireInv
    <2>2. Coherent(rec)' /\ Accounts(rec)'
      BY <1>0, KeptRecord DEF FenceInv
    <2>3. FenceInv'
      BY <1>0, <2>2 DEF FenceInv
    <2>4. Coherent(ctl.snap)' /\ Accounts(ctl.snap)'
      BY <1>0, <1>1, <2>2, Zenon DEF Coherent, Accounts
    <2> QED
      BY <2>1, <2>3, <2>4
  <1>4. PassInv'
    <2>1. ~claim.deleting => rec.phase \notin Unissued
      BY <1>2 DEF ChooseBranch, OperatorInv, Unissued
    <2>2. ctl'.pc \in Cleaning /\ rec.phase = "issued" /\ rec.created # None => rec.rollback
      BY <1>1 DEF ChooseBranch, Cleaning
    <2>3. ctl'.pc \notin Reaped
      BY <1>1 DEF Reaped
    <2> QED
      BY <1>0, <1>1, <1>3, <2>1, <2>2, <2>3, Zenon DEF PassInv, CtlAt, Reaped
  <1>5. OperatorInv'
    BY <1>0, <1>1, Zenon DEF OperatorInv, Sending, At
  <1>6. PublishInv'
    <2>1. ~claim.deleting => ctl'.pc # "choose" /\ (ctl'.pc \in Cleaning => rec.rollback)
      BY <1>1 DEF ChooseBranch, Cleaning
    <2> QED
      BY <1>0, <1>1, <2>1, Zenon DEF PublishInv, CtlAt, At
  <1> QED
    BY <1>3, <1>4, <1>5, <1>6

LEMMA SafeCtlChoose ==
  ASSUME TypeInv, SafetyInv, CtlChoose
  PROVE  SafetyInv'
  <1> USE DEF SafetyInv, EscapeInv
  <1> DEFINE receipt == rec.created \in ctl.snap.receipts
  <1>0. /\ UNCHANGED <<claim, operator, vm, fip, posting, dropping, bad, cr>>
        /\ ctl'.pc = "idle" /\ CtlAt("choose")
    BY DoneSound DEF CtlChoose, cloud
  <1>1. Calm
    BY <1>0, ControlCalm DEF Unmoved
  <1>2. /\ claim.prot /\ rec.phase = "issued" /\ rec.created = ctl.snap.created
        /\ rec' = RolledBack(rec, rec.created, receipt)
    BY DEF CtlChoose, CanRollback
  <1>3. receipt \in BOOLEAN /\ (receipt => rec.created # None)
    BY ControlFields, RecordFields, NoneAssumption DEF TypeInv, VMs
  <1> HIDE DEF receipt
  <1>4. Coherent(rec)' /\ Accounts(rec)'
    BY <1>0, <1>1, <1>2, <1>3, RolledBackCoherent
  <1>5. rec'.phase = "issued"
    BY <1>2, <1>3, RolledBackFields DEF TypeInv, KubeOK
  <1>6. EscapeInv'
    BY <1>0, <1>1, <1>4, <1>5, EndFrame DEF CtlAt, Unissued
  <1>7. PublishInv'
    BY <1>0, Zenon DEF PublishInv
  <1> QED
    BY <1>6, <1>7

LEMMA SafeCtlProtectFails ==
  ASSUME TypeInv, SafetyInv, CtlProtectFails
  PROVE  SafetyInv'
  <1> USE DEF SafetyInv, EscapeInv
  <1> DEFINE receipt == fipu.phase \in {"issued", "observed"}
  <1>0. /\ UNCHANGED <<claim, operator, vm, fip, posting, dropping, bad, cr>>
        /\ ctl'.pc = "idle" /\ CtlAt("protect")
    BY DoneSound, Zenon DEF CtlProtectFails, cloud
  <1>1. Calm
    BY <1>0, ControlCalm DEF Unmoved
  <1>2. /\ claim.prot /\ rec.phase = "issued" /\ rec.created # None
        /\ rec' = RolledBack(rec, rec.created, receipt)
    BY DEF CtlProtectFails, CanRollback
  <1>3. receipt \in BOOLEAN
    OBVIOUS
  <1> HIDE DEF receipt
  <1>4. Coherent(rec)' /\ Accounts(rec)'
    BY <1>0, <1>1, <1>2, <1>3, RolledBackCoherent
  <1>5. rec'.phase = "issued" /\ rec'.rollback
    BY <1>2, <1>3, RolledBackFields DEF TypeInv, KubeOK
  <1>6. EscapeInv'
    BY <1>0, <1>1, <1>4, <1>5, EndFrame DEF CtlAt, Unissued
  <1>7. PublishInv'
    BY <1>0, <1>2, <1>5 DEF PublishInv, CtlAt, At, Cleaning
  <1> QED
    BY <1>6, <1>7

\* A pass that ends and leaves the record as it is.
LEMMA SafeEnd ==
  ASSUME TypeInv, SafetyInv, UNCHANGED <<claim, vm, fip, posting, dropping, bad, cr>>,
         ctl'.pc = "idle", ~CtlAt("idle"), Same(rec', rec),
         operator'.result \in {operator.result, "none"}
  PROVE  SafetyInv'
  <1> USE DEF SafetyInv, EscapeInv
  <1>1. Calm /\ Plain
    BY ControlCalm DEF Unmoved
  <1>2. Coherent(rec)' /\ Accounts(rec)'
    BY <1>1, AccountsRecord DEF FenceInv, Coherent, Same
  <1>3. EscapeInv'
    BY <1>1, <1>2, EndFrame, Zenon DEF OperatorInv, Same
  <1>4. PublishInv'
    BY <1>1, PublishFrame, Zenon DEF Same, Justified, Cleaning
  <1> QED
    BY <1>3, <1>4

LEMMA SafeCtlProtect ==
  ASSUME TypeInv, SafetyInv, CtlProtect
  PROVE  SafetyInv'
  <1>1. Same(rec', rec)
    BY FirewallSame DEF CtlProtect, TypeInv, KubeOK
  <1> QED
    BY <1>1, DoneSound, SafeEnd DEF CtlProtect, cloud, CtlAt

LEMMA SafeCtlAbandon ==
  ASSUME TypeInv, SafetyInv, CtlAbandon
  PROVE  SafetyInv'
  BY SameSame, DoneSound, SafeEnd DEF CtlAbandon, cloud, kube

LEMMA RefreshedKeeps ==
  ASSUME TypeInv, NEW pc, NEW v
  PROVE  /\ Refreshed(pc, v).pc = pc /\ Refreshed(pc, v).vm = v
         /\ Refreshed(pc, v).snap = ctl.snap
         /\ [ctl EXCEPT !.pc = pc].pc = pc /\ [ctl EXCEPT !.pc = pc].snap = ctl.snap
  BY DEF TypeInv, SoundControls, Controls, Refreshed

\* A pass that goes on: it is one of a deleted claim or of a rollback, so its
\* DELETEs are justified.
LEMMA SafeGoes ==
  ASSUME TypeInv, SafetyInv, Unmoved, UNCHANGED <<cr, claim, operator, bad>>,
         ctl.pc \in Cleaning, ctl'.pc \in Cleaning, ctl'.snap = ctl.snap, Same(rec', rec),
         \/ ctl.pc \in Reaped
         \/ ctl'.pc \notin Reaped
         \/ \A v \in Receipts(ctl.snap) : fip'[v] = "none" /\ vm[v] = "gone",
         ctl'.pc = "persist" => vm[ctl'.vm] # "none",
         ctl'.pc = "release" => Quiet
  PROVE  SafetyInv'
  <1> USE DEF SafetyInv
  <1>1. EscapeInv'
    BY GoesFrame
  <1>2. Justified
    BY Zenon DEF PublishInv, Justified
  <1>3. Plain /\ (ctl'.pc = "choose" => ctl.pc = "choose")
    BY DEF Plain, Cleaning
  <1>4. PublishInv'
    BY <1>2, <1>3, PublishFrame, Zenon DEF Same, Unmoved
  <1> QED
    BY <1>1, <1>4

LEMMA SafeCtlReceipts ==
  ASSUME TypeInv, SafetyInv, CtlReceipts
  PROVE  SafetyInv'
  <1> USE DEF SafetyInv, EscapeInv
  <1> DEFINE R == Receipts(ctl.snap)
  <1>0. /\ UNCHANGED <<claim, operator, vm, posting, bad, cr>> /\ ctl.pc = "clean"
        /\ Same(rec', rec)
    BY SameSame DEF CtlReceipts, CtlAt
  <1>1. CASE ctl' = Refreshed("clean", None) /\ UNCHANGED fip
    <2>1. ctl'.pc = "clean" /\ ctl'.snap = ctl.snap
      BY <1>1, RefreshedKeeps
    <2>2. Unmoved
      BY <1>0, <1>1 DEF Unmoved
    <2> QED
      BY <1>0, <2>1, <2>2, SafeGoes, Zenon DEF Cleaning, Reaped
  <1>2. CASE /\ FinishDelete(R, TRUE)
             /\ \E pc \in {"audit", "anchor"} :
                   ctl' \in {[ctl EXCEPT !.pc = pc], Refreshed(pc, None)}
    <2>1. ctl'.pc \in {"audit", "anchor"} /\ ctl'.snap = ctl.snap
      <3>1. PICK pc \in {"audit", "anchor"} :
               ctl' \in {[ctl EXCEPT !.pc = pc], Refreshed(pc, None)}
        BY <1>2
      <3>2. /\ Refreshed(pc, None).pc = pc /\ Refreshed(pc, None).snap = ctl.snap
            /\ [ctl EXCEPT !.pc = pc].pc = pc /\ [ctl EXCEPT !.pc = pc].snap = ctl.snap
        BY RefreshedKeeps, Zenon
      <3>3. ctl'.pc = pc /\ ctl'.snap = ctl.snap
        BY <3>1, <3>2, Zenon
      <3> QED
        BY <3>3
    <2>2. \A v \in R : v \in VMs /\ vm[v] \notin {"none", "live"}
      <3>1. \A v \in R : v \in VMs
        BY ReceiptVMs
      <3>2. \A v \in R : vm[v] # "live"
        BY <1>2, <3>1 DEF FinishDelete, Live
      <3>3. \A v \in R : vm[v] # "none"
        BY <1>0, ControlFields, RecordFields, NoneAssumption, Zenon
           DEF PassInv, CtlAt, Coherent, Receipts, TypeInv, VMs
      <3> QED
        BY <3>1, <3>2, <3>3
    <2>3. \A v \in R : fip'[v] = "none" /\ vm[v] = "gone"
      BY <1>2, <2>2 DEF FinishDelete, TypeInv, CloudOK
    <2>4. Unmoved
      BY <1>0, <1>2 DEF FinishDelete, Unmoved
    <2> QED
      BY <1>0, <2>1, <2>3, <2>4, SafeGoes DEF Cleaning
  <1> QED
    <2>1. \/ ctl' = Refreshed("clean", None) /\ UNCHANGED fip
          \/ /\ FinishDelete(R, TRUE)
             /\ \E pc \in {"audit", "anchor"} :
                   ctl' \in {[ctl EXCEPT !.pc = pc], Refreshed(pc, None)}
      BY Zenon DEF CtlReceipts
    <2> QED
      BY <1>1, <1>2, <2>1, Zenon

\* An address is named while its VM is alive.
LEMMA NameUnmoved ==
  ASSUME TypeInv, NEW v \in Live, NameAddress(v), UNCHANGED <<vm, posting>>
  PROVE  Unmoved
  BY DEF NameAddress, Unmoved, Live, TypeInv, CloudOK

LEMMA SafeCtlAnchor ==
  ASSUME TypeInv, SafetyInv, CtlAnchor
  PROVE  SafetyInv'
  <1> DEFINE v == ctl.snap.created
  <1>0. /\ UNCHANGED <<claim, operator, vm, posting, bad, cr>> /\ ctl.pc = "anchor"
        /\ Same(rec', rec)
    BY SameSame DEF CtlAnchor, CtlAt
  <1>1. CASE v \in Live /\ NameAddress(v) /\ ctl' = Refreshed("persist", v)
    <2>1. ctl'.pc = "persist" /\ ctl'.snap = ctl.snap /\ ctl'.vm = v /\ vm[v] # "none"
      BY <1>1, RefreshedKeeps DEF Live
    <2>2. Unmoved
      BY <1>0, <1>1, NameUnmoved
    <2> QED
      BY <1>0, <2>1, <2>2, SafeGoes DEF Cleaning, Reaped
  <1>2. CASE /\ UNCHANGED fip \/ FinishDelete({v}, FALSE)
             /\ \E pc \in {"audit", "anchor"} :
                   ctl' \in {[ctl EXCEPT !.pc = pc], Refreshed(pc, None)}
    <2>1. ctl'.pc \in {"audit", "anchor"} /\ ctl'.snap = ctl.snap
      <3>1. PICK pc \in {"audit", "anchor"} :
               ctl' \in {[ctl EXCEPT !.pc = pc], Refreshed(pc, None)}
        BY <1>2
      <3>2. /\ Refreshed(pc, None).pc = pc /\ Refreshed(pc, None).snap = ctl.snap
            /\ [ctl EXCEPT !.pc = pc].pc = pc /\ [ctl EXCEPT !.pc = pc].snap = ctl.snap
        BY RefreshedKeeps, Zenon
      <3>3. ctl'.pc = pc /\ ctl'.snap = ctl.snap
        BY <3>1, <3>2, Zenon
      <3> QED
        BY <3>3
    <2>2. Unmoved
      BY <1>0, <1>2 DEF FinishDelete, Unmoved
    <2> QED
      BY <1>0, <2>1, <2>2, SafeGoes DEF Cleaning, Reaped
  <1> QED
    <2>1. \/ v \in Live /\ NameAddress(v) /\ ctl' = Refreshed("persist", v)
          \/ /\ UNCHANGED fip \/ FinishDelete({v}, FALSE)
             /\ \E pc \in {"audit", "anchor"} :
                   ctl' \in {[ctl EXCEPT !.pc = pc], Refreshed(pc, None)}
      BY Zenon DEF CtlAnchor
    <2> QED
      BY <1>1, <1>2, <2>1, Zenon

LEMMA SafeCtlResolve ==
  ASSUME TypeInv, SafetyInv, CtlResolve
  PROVE  SafetyInv'
  <1>0. UNCHANGED <<claim, operator, vm, posting, bad, cr>> /\ ctl.pc = "audit"
    BY DEF CtlResolve, CtlAt
  <1>1. PICK v \in Live :
          /\ NameAddress(v)
          /\ rec' = IF CanAssignFirewall(v) THEN [rec EXCEPT !.fw = "observed"] ELSE rec
          /\ ctl' = Refreshed("persist", v)
    BY DEF CtlResolve
  <1>2. ctl'.pc = "persist" /\ ctl'.snap = ctl.snap /\ ctl'.vm = v /\ vm[v] # "none"
    BY <1>1, RefreshedKeeps DEF Live
  <1>3. Unmoved
    BY <1>0, <1>1, NameUnmoved
  <1>4. Same(rec', rec)
    BY <1>1, FirewallSame, SameSame DEF TypeInv, KubeOK
  <1> QED
    BY <1>0, <1>2, <1>3, <1>4, SafeGoes DEF Cleaning, Reaped

\* Three empty snapshots of an attempt that has a result: the one VM it can have
\* made is gone, its address was deleted with a receipt or is tracked without
\* one, so nothing is left and nothing can come.
LEMMA AuditIsQuiet ==
  ASSUME TypeInv, SafetyInv, CtlAudit
  PROVE  Quiet
  <1> USE DEF SafetyInv, EscapeInv
  <1> DEFINE r == ctl.snap
  <1>1. /\ Coherent(r) /\ Accounts(r) /\ ctl.pc = "audit"
        /\ r.phase = "issued" /\ r.created # None => r.rollback
        /\ \A v \in Receipts(r) : fip[v] = "none"
    BY DEF CtlAudit, PassInv, CtlAt, Cleaning, Reaped
  <1>2. /\ r.issue \in Creators \cup {None} /\ r.created \in VMs \cup {None}
        /\ r.receipts \subseteq VMs /\ r.phase = "materialized" => r.created \in VMs
    BY ControlFields, RecordFields DEF TypeInv
  <1>3. /\ \A v \in VMs : vm[v] # "live" /\ fip[v] \notin {"named", "looseNamed"}
        /\ ~(r.issue # None /\ r.phase = "issued" /\ r.created = None /\ r.receipts = {})
        /\ (r.unresolved \/ r.resolved) /\ r.created \notin Receipts(r) =>
              \A v \in VMs : fip[v] # "loose"
    BY DEF CtlAudit, Live, IssuedUnobserved
  <1>4. fip \in [VMs -> {"none", "auto", "named", "loose", "looseNamed"}]
    BY DEF TypeInv, CloudOK
  <1> HIDE DEF r
  <1>5. ASSUME NEW c \in Creators PROVE ~Sending(c)
    <2> SUFFICES ASSUME Sending(c) PROVE FALSE
      OBVIOUS
    <2>1. vm[c] = "none" /\ r.issue = c /\ r.phase \in {"issued", "materialized"} /\ c # None
      BY <1>1, <1>3, NoneAssumption, Zenon DEF Sending, WireInv, Accounts, At, VMs
    <2>2. r.created = None /\ r.receipts = {}
      BY <1>1, <2>1, Zenon DEF Coherent
    <2> QED
      BY <1>2, <1>3, <2>1, <2>2, NoneAssumption DEF VMs
  <1>6. ASSUME NEW v \in VMs PROVE fip[v] = "none"
    <2> SUFFICES ASSUME fip[v] # "none" PROVE FALSE
      OBVIOUS
    <2>1. /\ fip[v] = "loose" /\ vm[v] # "none"
          /\ r.issue = v /\ r.phase \notin Unissued /\ r.phase # "rejected" /\ v # None
      <3>1. v \in Creators /\ v # None
        BY NoneAssumption DEF VMs
      <3>2. vm[v] # "none" /\ fip[v] \notin {"auto", "named"}
        BY <1>3, <3>1 DEF WireInv
      <3>3. fip[v] = "loose"
        BY <1>3, <1>4, <3>2
      <3> QED
        BY <1>1, <3>1, <3>2, <3>3 DEF Accounts
    <2>2. r.phase \in {"issued", "materialized"}
      BY <2>1, ControlFields DEF r, TypeInv, SoundRecords, Records, Unissued
    <2>3. v \notin Receipts(r)
      BY <1>1, <2>1, Zenon
    <2>4. CASE r.phase = "materialized"
      BY <1>1, <1>2, <2>1, <2>3, <2>4, NoneAssumption DEF Coherent, Receipts, VMs
    <2>5. CASE r.phase = "issued"
      <3>1. r.receipts = {}
        BY <1>1, <2>1, <2>3 DEF Coherent, Receipts
      <3>2. r.created = v
        BY <1>1, <1>3, <2>1, <2>5, <3>1 DEF Coherent
      <3>3. r.unresolved \/ r.resolved
        BY <1>1, <2>1, <2>5, <3>1, <3>2 DEF Coherent
      <3> QED
        BY <1>3, <2>1, <2>3, <3>2, <3>3
    <2> QED
      BY <2>2, <2>4, <2>5
  <1> QED
    BY <1>5, <1>6 DEF Quiet, VMs

LEMMA SafeCtlAudit ==
  ASSUME TypeInv, SafetyInv, CtlAudit
  PROVE  SafetyInv'
  <1>0. /\ UNCHANGED <<claim, rec, operator, vm, fip, posting, bad, cr>> /\ ctl.pc = "audit"
        /\ Same(rec', rec) /\ Unmoved
    BY SameSame DEF CtlAudit, CtlAt, kube, cloud, Unmoved
  <1>1. \E pc \in {"dependents", "release"} : ctl' = [ctl EXCEPT !.pc = pc]
    BY DEF CtlAudit
  <1>2. ctl'.pc \in {"dependents", "release"} /\ ctl'.snap = ctl.snap
    BY <1>1 DEF TypeInv, SoundControls, Controls
  <1> QED
    BY <1>0, <1>2, AuditIsQuiet, SafeGoes DEF Cleaning, Reaped

\* What a cleanup pass writes on the record it read.
LEMMA RestoredFrame ==
  ASSUME TypeInv, SafetyInv, UNCHANGED <<claim, operator, vm, fip, posting, dropping, bad, cr>>,
         ctl'.pc = "idle", ctl.pc \in Cleaning, Coherent(rec)',
         rec'.phase = ctl.snap.phase, rec'.issue = ctl.snap.issue,
         rec'.rollback = ctl.snap.rollback
  PROVE  SafetyInv'
  <1> USE DEF SafetyInv, EscapeInv
  <1>0. ~CtlAt("idle")
    BY DEF CtlAt, Cleaning
  <1>1. Calm
    BY ControlCalm DEF Unmoved
  <1>2. Accounts(rec)'
    BY <1>0, <1>1, AccountsRestored, Zenon DEF PassInv
  <1>3. operator.result = "none"
    BY DEF OperatorInv, Cleaning
  <1>4. EscapeInv'
    BY <1>0, <1>1, <1>2, <1>3, EndFrame
  <1>5. PublishInv'
    BY Zenon DEF PublishInv, CtlAt, At, Cleaning
  <1> QED
    BY <1>4, <1>5

LEMMA SafeCtlPersist ==
  ASSUME TypeInv, SafetyInv, CtlPersist
  PROVE  SafetyInv'
  <1> USE DEF SafetyInv, EscapeInv
  <1> DEFINE r == ctl.snap
             v == ctl.vm
             rs == Receipts(r) \cup {v}
  <1>0. /\ UNCHANGED <<claim, operator, vm, fip, posting, dropping, bad, cr>>
        /\ ctl'.pc = "idle" /\ ctl.pc = "persist"
    BY DoneSound DEF CtlPersist, CtlAt, cloud
  <1>1. /\ Coherent(r) /\ Accounts(r) /\ vm[v] # "none" /\ v \in VMs
    BY <1>0, ControlFields, Zenon DEF PassInv, CtlAt, TypeInv
  <1>2. v = r.issue /\ r.phase \notin Unissued
    BY <1>1 DEF Accounts, VMs
  <1>3. /\ rec'.phase = r.phase /\ rec'.issue = r.issue /\ rec'.created = r.created
        /\ rec'.rollback = r.rollback /\ rec'.receipts = rs
    <2>1. r \in SoundRecords
      BY ControlFields DEF TypeInv
    <2> HIDE DEF rs
    <2> QED
      BY <2>1, Zenon DEF CtlPersist, WithReceipt, SoundRecords, Records, rs
  <1>4. \A w \in rs : w = r.issue /\ vm[w] # "none"
    <2>1. r.phase = "materialized" => r.created # None
      BY ControlFields, RecordFields, NoneAssumption DEF TypeInv, VMs
    <2> QED
      BY <1>1, <1>2, <2>1 DEF Coherent, Receipts
  <1>5. Coherent(rec)'
    BY <1>0, <1>1, <1>2, <1>3, <1>4, Zenon DEF Coherent
  <1> QED
    BY <1>0, <1>3, <1>5, RestoredFrame DEF Cleaning

LEMMA SafeCtlDependents ==
  ASSUME TypeInv, SafetyInv, CtlDependents
  PROVE  SafetyInv'
  <1> USE DEF SafetyInv, EscapeInv
  <1>0. /\ UNCHANGED <<claim, operator, vm, fip, posting, dropping, bad, cr>>
        /\ ctl'.pc = "idle" /\ ctl.pc = "dependents"
    BY DoneSound DEF CtlDependents, CtlAt, cloud
  <1>1. /\ rec'.phase = ctl.snap.phase /\ rec'.issue = ctl.snap.issue
        /\ rec'.created = ctl.snap.created /\ rec'.rollback = ctl.snap.rollback
        /\ rec'.receipts = ctl.snap.receipts /\ rec'.resolved
    BY ControlFields, Zenon DEF CtlDependents, TypeInv, SoundRecords, Records
  <1>2. Coherent(ctl.snap)
    BY <1>0, Zenon DEF PassInv, CtlAt
  <1>3. Coherent(rec)'
    BY <1>0, <1>1, <1>2, Zenon DEF Coherent
  <1> QED
    BY <1>0, <1>1, <1>3, RestoredFrame, Zenon DEF Cleaning

\* The finalizer is given up on a quiet launch.
LEMMA SafeCtlRelease ==
  ASSUME TypeInv, SafetyInv, CtlRelease
  PROVE  SafetyInv'
  <1> USE DEF SafetyInv, EscapeInv
  <1>0. /\ UNCHANGED <<operator, vm, fip, posting, dropping, bad, cr>> /\ ctl'.pc = "idle"
        /\ Quiet /\ operator.result = "none"
    BY DoneSound DEF CtlRelease, PassInv, cloud
  <1>1. ~claim'.prot /\ claim'.deleting
    BY DEF CtlRelease, TypeInv, KubeOK, Claims
  <1>2. rec'.phase = "none" /\ rec'.created = None /\ rec'.receipts = {}
    BY DEF CtlRelease, NoFence
  <1>3. WireInv' /\ Quiet'
    BY <1>0 DEF WireInv, Quiet, Sending, At
  <1>4. FenceInv'
    BY <1>0, <1>1, <1>2, <1>3 DEF FenceInv, Coherent, CtlAt, Unissued
  <1>5. PassInv' /\ OperatorInv' /\ PublishInv'
    BY <1>0, <1>1, Zenon DEF PassInv, OperatorInv, PublishInv, CtlAt, Cleaning, Reaped
  <1> QED
    BY <1>3, <1>4, <1>5

LEMMA ClearedOperator ==
  ASSUME ClearOperator
  PROVE  operator'.result \in {operator.result, "none"}
  BY DEF ClearOperator

LEMMA SafeCtlOperatorVM ==
  ASSUME TypeInv, SafetyInv, CtlOperatorVM
  PROVE  SafetyInv'
  <1>0. /\ UNCHANGED <<claim, vm, fip, posting, dropping, bad, cr>>
        /\ ctl'.pc = "idle" /\ ~CtlAt("idle") /\ operator'.result \in {operator.result, "none"}
    BY DoneSound, ClearedOperator DEF CtlOperatorVM, CtlAt, cloud
  <1>1. Same(rec', rec)
    <2>1. CASE rec' = rec
      BY <2>1, SameSame
    <2>2. CASE /\ rec.created = operator.vm
               /\ rec' = [Anchored(operator.vm) EXCEPT !.fw = "observed"]
      BY <2>2, StoredFields DEF Same, TypeInv, KubeOK
    <2> QED
      BY <2>1, <2>2 DEF CtlOperatorVM, CanAssignFirewall
  <1> QED
    BY <1>0, <1>1, SafeEnd

\* The attempt is rejected on support's word, which still is true.
LEMMA SafeCtlOperatorNoResult ==
  ASSUME TypeInv, SafetyInv, CtlOperatorNoResult
  PROVE  SafetyInv'
  <1> USE DEF SafetyInv, EscapeInv
  <1>0. /\ UNCHANGED <<claim, vm, fip, posting, dropping, bad, cr>>
        /\ ctl'.pc = "idle" /\ ~CtlAt("idle") /\ operator'.result \in {operator.result, "none"}
    BY DoneSound, ClearedOperator, Zenon DEF CtlOperatorNoResult, CtlAt, cloud
  <1>1. CASE rec' = rec
    BY <1>0, <1>1, SameSame, SafeEnd
  <1>2. CASE /\ \A v \in VMs : fip[v] = "none"
             /\ CanReject(ctl.snap.issue) /\ rec' = Rejected
    <2>1. /\ claim.prot /\ rec.issue # None /\ rec.phase = "issued"
          /\ rec.created = None /\ ~rec.rollback /\ rec.receipts = {}
      BY <1>2 DEF CanReject
    <2>2. /\ rec'.phase = "rejected" /\ rec'.issue = rec.issue /\ rec'.created = None
          /\ rec'.receipts = {} /\ ~rec'.rollback
      BY <1>2, <2>1, StoredFields DEF TypeInv, KubeOK
    <2>3. Calm /\ Plain
      BY <1>0, ControlCalm DEF Unmoved
    <2>4. Coherent(rec)'
      BY <2>1, <2>2 DEF Coherent
    <2>5. Accounts(rec)'
      <3>1. \A c \in Creators : ~Sending(c)'
        BY <2>3, Zenon DEF CtlOperatorNoResult, OperatorInv, Calm
      <3>2. \A c \in Creators : vm'[c] # "none" => rec'.issue = c
        BY <1>0, <2>1, <2>2, Zenon DEF FenceInv, Accounts
      <3> QED
        BY <1>0, <1>2, <2>2, <3>1, <3>2 DEF Accounts, Unissued
    <2>6. EscapeInv'
      BY <1>0, <2>2, <2>3, <2>4, <2>5, EndFrame DEF Unissued
    <2>7. PublishInv'
      BY <1>0, <2>1, <2>2, <2>3, Zenon DEF PublishInv, Plain, CtlAt, At, Cleaning
    <2> QED
      BY <2>6, <2>7
  <1> QED
    BY <1>1, <1>2, Zenon DEF CtlOperatorNoResult

-----------------------------------------------------------------------------

LEMMA SafetyInit == Init => SafetyInv
  <1> SUFFICES ASSUME Init PROVE SafetyInv
    OBVIOUS
  <1>1. /\ rec.phase = "none" /\ rec.created = None /\ rec.receipts = {} /\ ~rec.rollback
        /\ ctl.pc = "idle" /\ operator.result = "none" /\ ~claim.prot /\ claim.pid = None
        /\ \A c \in Creators : /\ cr[c].pc = "idle" /\ cr[c].vm = None
                               /\ vm[c] = "none" /\ fip[c] = "none"
        /\ posting = {} /\ dropping = {}
    BY Zenon DEF Init, NoFence, IdleController, IdleCreate, VMs
  <1>2. WireInv /\ Quiet
    BY <1>1, Zenon DEF WireInv, Quiet, Sending, At
  <1>3. FenceInv
    BY <1>1, <1>2, Zenon DEF FenceInv, Coherent, Unissued, CtlAt, VMs
  <1>4. PassInv /\ OperatorInv /\ PublishInv
    BY <1>1, Zenon DEF PassInv, OperatorInv, PublishInv, CtlAt, At, Cleaning, Reaped, VMs
  <1> QED
    BY <1>2, <1>3, <1>4 DEF SafetyInv, EscapeInv

LEMMA SafetyStutter ==
  ASSUME TypeInv, SafetyInv, UNCHANGED vars
  PROVE  SafetyInv'
  <1>0. UNCHANGED <<claim, rec, operator, vm, fip, posting, dropping, bad, cr, ctl>>
    BY DEF vars, kube, cloud
  <1>1. Unmoved /\ Modest /\ Plain /\ SamePass /\ Same(rec', rec)
    BY <1>0, SameSame, Zenon DEF Unmoved, Modest, Plain, SamePass, SafetyInv, EscapeInv, WireInv
  <1> QED
    BY <1>0, <1>1, PlainStep DEF Justified

LEMMA SafetyNext == TypeInv /\ SafetyInv /\ [Next]_vars => SafetyInv'
  <1> SUFFICES ASSUME TypeInv, SafetyInv, [Next]_vars PROVE SafetyInv'
    OBVIOUS
  <1>1. ASSUME NEW c \in Creators, Create(c) PROVE SafetyInv'
    BY <1>1, SafeStart, PlainLaunch, SafeAuthorize, SafePreflight, PlainAnswer,
       SafeMarkRejected, SafeRecordCreatedVM, PlainProtect, PlainName, PlainPatch,
       PlainProtectionFails, SafeChooseRollback, PlainUndoLaunch, SafeMarkMaterialized,
       SafeReturn, SafeKnownBad, SafeRecycle, PlainAbandon, Zenon
    DEF Create
  <1>2. CASE Controller
    BY <1>2, SafeCtlRead, SafeCtlChoose, SafeCtlProtect, SafeCtlProtectFails,
       SafeCtlReceipts, SafeCtlAnchor, SafeCtlResolve, SafeCtlAudit, SafeCtlPersist,
       SafeCtlDependents, SafeCtlRelease, SafeCtlOperatorVM, SafeCtlOperatorNoResult,
       SafeCtlAbandon, Zenon
    DEF Controller
  <1> QED
    BY <1>1, <1>2, PlainDeleteClaim, PlainTerminate, PlainVanish, SafeOperatorDecides,
       SafePostSettles, SafeDeleteCommits, SafeDeleteLost, SafetyStutter, Zenon DEF Next

LEMMA SafetyAlways == Spec => [](TypeInv /\ SafetyInv)
  <1>1. Init => Inv /\ SafetyInv
    BY InitInv, SafetyInit
  <1>2. Inv /\ SafetyInv /\ [Next]_vars => (Inv /\ SafetyInv)'
    BY NextInv, SafetyNext DEF Inv
  <1>3. Inv /\ SafetyInv => TypeInv /\ SafetyInv
    BY DEF Inv
  <1> QED
    BY <1>1, <1>2, <1>3, PTL DEF Spec

(* For every set of Create invocations, removeProtection gives the finalizer *)
(* up only when no VM and no address of the claim is left, no POST is on the  *)
(* wire and no Create may still send one: until then the fence, and the copy  *)
(* of it that a cleanup pass works with, account for whatever was sent.       *)
THEOREM NothingEscapes == Spec => []NoEscape
  <1>1. TypeInv /\ SafetyInv => NoEscape
    BY DEF TypeInv, CloudOK, SafetyInv, EscapeInv, FenceInv, Quiet, Sending, NoEscape, Live, VMs
  <1> QED
    BY <1>1, SafetyAlways, PTL

(* For every set of Create invocations, while nobody deletes the claim, a VM  *)
(* whose ProviderID Karpenter has stays materialized and is never rolled back; *)
(* and it stays alive, without a DELETE on the wire, unless its address is     *)
(* recorded as bad: ChooseRollback and MarkMaterialized exclude each other,    *)
(* and only a rollback or a bad address sends a DELETE.                       *)
THEOREM PublishedStays == Spec => []PublishedIsSafe
  <1>1. TypeInv /\ SafetyInv => PublishedIsSafe
    <2> SUFFICES ASSUME TypeInv, SafetyInv, claim.pid # None, ~claim.deleting
                 PROVE  /\ rec.phase = "materialized" /\ rec.created = claim.pid /\ ~rec.rollback
                        /\ ~bad => claim.pid \in Live /\ claim.pid \notin dropping
      BY DEF PublishedIsSafe
    <2>1. /\ rec.phase = "materialized" /\ rec.created = claim.pid /\ ~rec.rollback
          /\ ~bad => dropping = {} /\ \A v \in VMs : vm[v] # "gone"
      BY DEF SafetyInv, PublishInv
    <2>2. claim.pid \in VMs /\ vm[claim.pid] # "none"
      BY <2>1, Zenon DEF SafetyInv, EscapeInv, FenceInv, Coherent, TypeInv, KubeOK, Claims
    <2> QED
      BY <2>1, <2>2, Zenon DEF Live, TypeInv, CloudOK
  <1> QED
    BY <1>1, SafetyAlways, PTL
=============================================================================
