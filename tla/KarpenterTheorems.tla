-------------------------- MODULE KarpenterTheorems --------------------------
(***************************************************************************)
(* Proofs about KarpenterCreate, for every set of Create invocations: the   *)
(* types, and that one NodeClaim sends at most one VM POST.                 *)
(***************************************************************************)
EXTENDS KarpenterCreate, TLAPS

(* The types of TypeOK, sharpened by what the actions rely on: a            *)
(* materialized record has its VM, and so has everyone about to delete it.  *)
SoundRecords == {r \in Records : r.phase = "materialized" => r.created \in VMs}

Claims == [present : BOOLEAN, deleting : BOOLEAN, prot : BOOLEAN,
           term : BOOLEAN, pid : VMs \cup {None}]

Updates == [phase : {"none", "issued", "rejected", "observed"},
            vm : VMs \cup {None}]

Removals == [phase : {"none", "ready", "issued", "observed"},
             vm : VMs \cup {None}]

CreatePCs == {"idle", "launch", "authorize", "preflight", "await", "reject",
              "anchor", "protect", "name", "patch", "rollback", "undo",
              "materialize", "done", "recycle"}

Locals == [pc : CreatePCs, allow : BOOLEAN, issue : Creators \cup {None},
           vm : VMs \cup {None}, rb : BOOLEAN, receipt : BOOLEAN]

SoundLocals ==
    {l \in Locals :
        l.pc \in {"rollback", "undo", "materialize", "done", "recycle"} \/ l.receipt =>
            l.vm \in VMs}

ControllerPCs == {"idle", "choose", "operator", "clean", "protect", "anchor",
                  "audit", "persist", "dependents", "release"}

Controls == [pc : ControllerPCs, snap : Records, aud : Records,
             deleting : BOOLEAN, fresh : BOOLEAN, vm : VMs \cup {None}]

SoundControls ==
    {k \in Controls :
        /\ k.snap \in SoundRecords
        /\ k.pc = "persist" => k.vm \in VMs
        /\ k.pc = "anchor" => k.snap.created \in VMs}

CloudOK ==
    /\ vm \in [VMs -> {"none", "live", "gone"}]
    /\ fip \in [VMs -> {"none", "auto", "named", "loose", "looseNamed"}]
    /\ posting \subseteq Creators /\ dropping \subseteq VMs
    /\ posts \in Nat /\ bad \in BOOLEAN

KubeOK ==
    /\ claim \in Claims /\ rec \in SoundRecords /\ fipu \in Updates
    /\ removal \in Removals
    /\ operator \in [result : {"none", "vm", "noResult"}, vm : VMs \cup {None}]

TypeInv ==
    KubeOK /\ CloudOK /\ cr \in [Creators -> SoundLocals] /\ ctl \in SoundControls

-----------------------------------------------------------------------------
(* What the operators on records yield. *)

\* The sharpened types imply the types.
LEMMA TypeInvImpliesTypeOK == TypeInv => TypeOK
  BY DEF TypeInv, TypeOK, KubeOK, CloudOK, SoundRecords, SoundLocals,
         SoundControls, Claims, Updates, Removals, Locals, CreatePCs,
         Controls, ControllerPCs

\* The fields of a fence record.
LEMMA RecordFields ==
  ASSUME NEW r \in SoundRecords
  PROVE  /\ r \in Records
         /\ r.issue \in Creators \cup {None} /\ r.created \in VMs \cup {None}
         /\ r.rollback \in BOOLEAN /\ r.unresolved \in BOOLEAN
         /\ r.receipts \subseteq VMs
         /\ r.phase = "materialized" => r.created \in VMs
  BY DEF SoundRecords, Records

\* The empty fence and the reserved one.
LEMMA NewRecords ==
  /\ NoFence \in SoundRecords /\ NoFence.phase = "none"
  /\ [NoFence EXCEPT !.phase = "reserved", !.fw = "intent"] \in SoundRecords
  /\ [NoFence EXCEPT !.phase = "reserved", !.fw = "intent"].phase = "reserved"
  BY Zenon DEF NoFence, SoundRecords, Records

\* The updates of the store keep a record sound; only four of them change its
\* phase, and none of them back to reserved.
LEMMA AuthorizedSound ==
  ASSUME NEW c \in Creators, rec \in SoundRecords
  PROVE  Authorized(c) \in SoundRecords /\ Authorized(c).phase = "issued"
  BY Zenon DEF Authorized, SoundRecords, Records

LEMMA AnchoredSound ==
  ASSUME NEW v \in VMs \cup {None}, rec \in SoundRecords,
         rec.created = v \/ rec.phase = "issued"
  PROVE  /\ Anchored(v) \in SoundRecords /\ Anchored(v).phase = rec.phase
         /\ [Anchored(v) EXCEPT !.fw = "observed"] \in SoundRecords
         /\ [Anchored(v) EXCEPT !.fw = "observed"].phase = rec.phase
  BY Zenon DEF Anchored, SoundRecords, Records

LEMMA FirewallSound ==
  ASSUME rec \in SoundRecords
  PROVE  /\ [rec EXCEPT !.fw = "observed"] \in SoundRecords
         /\ [rec EXCEPT !.fw = "observed"].phase = rec.phase
  BY DEF SoundRecords, Records

LEMMA MarkerSound ==
  ASSUME rec \in SoundRecords
  PROVE  /\ [rec EXCEPT !.marker = TRUE] \in SoundRecords
         /\ [rec EXCEPT !.marker = TRUE].phase = rec.phase
  BY Zenon DEF SoundRecords, Records

LEMMA RolledBackSound ==
  ASSUME NEW r \in SoundRecords, NEW v, NEW receipt \in BOOLEAN,
         receipt => v \in VMs
  PROVE  /\ RolledBack(r, v, receipt) \in SoundRecords
         /\ RolledBack(r, v, receipt).phase = r.phase
  <1>1. CASE r.rollback /\ (~receipt \/ v \in r.receipts)
    BY <1>1 DEF RolledBack
  <1>2. CASE ~(r.rollback /\ (~receipt \/ v \in r.receipts))
    <2>1. CASE receipt = TRUE
      <3>1. PICK R \in SUBSET VMs : R = r.receipts \cup {v}
        BY <2>1, RecordFields, Zenon
      <3>2. RolledBack(r, v, receipt) =
              [r EXCEPT !.rollback = TRUE, !.resolved = FALSE,
                        !.unresolved = FALSE, !.receipts = R]
        BY <1>2, <2>1, <3>1, Zenon DEF RolledBack, SoundRecords, Records
      <3> QED
        BY <3>2, Zenon DEF SoundRecords, Records
    <2>2. CASE receipt = FALSE
      <3>1. RolledBack(r, v, receipt) =
              [r EXCEPT !.rollback = TRUE, !.resolved = FALSE,
                        !.unresolved = TRUE, !.receipts = r.receipts]
        BY <1>2, <2>2, Zenon DEF RolledBack, SoundRecords, Records
      <3> QED
        BY <3>1, Zenon DEF SoundRecords, Records
    <2> QED
      BY <2>1, <2>2, Zenon
  <1> QED
    BY <1>1, <1>2

LEMMA RejectedSound ==
  ASSUME rec \in SoundRecords
  PROVE  Rejected \in SoundRecords /\ Rejected.phase = "rejected"
  BY Zenon DEF Rejected, SoundRecords, Records

LEMMA MaterializedSound ==
  ASSUME rec \in SoundRecords, rec.created \in VMs
  PROVE  Materialized \in SoundRecords /\ Materialized.phase = "materialized"
  BY DEF Materialized, SoundRecords, Records

LEMMA ReceiptsSound ==
  ASSUME NEW r \in SoundRecords
  PROVE  Receipts(r) \subseteq VMs
  BY RecordFields DEF Receipts

LEMMA WithReceiptSound ==
  ASSUME NEW r \in SoundRecords, NEW v \in VMs
  PROVE  WithReceipt(r, v) \in SoundRecords /\ WithReceipt(r, v).phase = r.phase
  BY ReceiptsSound, ZenonT(60) DEF WithReceipt, SoundRecords, Records

LEMMA DependentsSound ==
  ASSUME NEW r \in SoundRecords
  PROVE  /\ [r EXCEPT !.unresolved = FALSE, !.resolved = TRUE] \in SoundRecords
         /\ [r EXCEPT !.unresolved = FALSE, !.resolved = TRUE].phase = r.phase
  BY Zenon DEF SoundRecords, Records

-----------------------------------------------------------------------------
(* What the steps of an invocation and of the controller do to their state. *)

\* A write to the NodeClaim leaves the controller everything but freshness.
LEMMA StaleSound ==
  ASSUME ctl \in SoundControls, Stale
  PROVE  /\ ctl' \in SoundControls
         /\ ctl'.pc = ctl.pc /\ ctl'.snap = ctl.snap
  BY Zenon DEF Stale, SoundControls, Controls

LEMMA DoneSound ==
  ASSUME CtlDone
  PROVE  ctl' \in SoundControls /\ ctl'.pc = "idle"
  BY NewRecords DEF CtlDone, IdleController, SoundControls, SoundRecords, Controls, ControllerPCs

\* One invocation goes on, keeping what it knows.
LEMMA GotoSound ==
  ASSUME NEW c \in Creators, NEW pc \in CreatePCs, Goto(c, pc),
         cr \in [Creators -> SoundLocals],
         pc \in {"rollback", "undo", "materialize", "done", "recycle"} => cr[c].vm \in VMs
  PROVE  /\ cr' \in [Creators -> SoundLocals]
         /\ cr'[c].pc = pc
         /\ \A d \in Creators : d # c => cr'[d] = cr[d]
  BY DEF Goto, SoundLocals, Locals

\* One invocation goes on with new local state.
LEMMA LocalSound ==
  ASSUME NEW c \in Creators, NEW l \in SoundLocals, cr' = [cr EXCEPT ![c] = l],
         cr \in [Creators -> SoundLocals]
  PROVE  /\ cr' \in [Creators -> SoundLocals]
         /\ cr'[c] = l
         /\ \A d \in Creators : d # c => cr'[d] = cr[d]
  OBVIOUS

LEMMA FinishSound ==
  ASSUME NEW c \in Creators, Finish(c), cr \in [Creators -> SoundLocals]
  PROVE  /\ cr' \in [Creators -> SoundLocals]
         /\ cr'[c].pc = "idle"
         /\ \A d \in Creators : d # c => cr'[d] = cr[d]
  BY DEF Finish, IdleCreate, SoundLocals, Locals, CreatePCs

LEMMA LocalFields ==
  ASSUME NEW c \in Creators, cr \in [Creators -> SoundLocals]
  PROVE  /\ cr[c].issue \in Creators \cup {None} /\ cr[c].vm \in VMs \cup {None}
         /\ cr[c].receipt \in BOOLEAN
         /\ cr[c].pc \in {"rollback", "undo", "materialize", "done", "recycle"} \/ cr[c].receipt
               => cr[c].vm \in VMs
  BY DEF SoundLocals, Locals

\* The fence and the wire, when a DELETE is sent and when absence is proved.
LEMMA SendDeleteSound ==
  ASSUME NEW v \in VMs, SendDelete(v), dropping \subseteq VMs
  PROVE  removal' \in Removals /\ dropping' \subseteq VMs
  BY DEF SendDelete, Removals

LEMMA FinishDeleteSound ==
  ASSUME NEW V, NEW reap \in BOOLEAN, FinishDelete(V, reap), removal \in Removals,
         fip \in [VMs -> {"none", "auto", "named", "loose", "looseNamed"}]
  PROVE  /\ removal' \in Removals
         /\ fip' \in [VMs -> {"none", "auto", "named", "loose", "looseNamed"}]
  BY DEF FinishDelete, Removals

\* A callback's copy of the claim.
LEMMA RefreshedSound ==
  ASSUME ctl \in SoundControls, rec' \in SoundRecords, NEW pc \in ControllerPCs,
         NEW v \in VMs \cup {None}, pc = "persist" => v \in VMs,
         pc = "anchor" => ctl.snap.created \in VMs
  PROVE  /\ Refreshed(pc, v) \in SoundControls
         /\ Refreshed(pc, v).pc = pc /\ Refreshed(pc, v).snap = ctl.snap
  BY Zenon DEF Refreshed, SoundControls, SoundRecords, Controls

LEMMA ControlFields ==
  ASSUME ctl \in SoundControls
  PROVE  /\ ctl.snap \in SoundRecords
         /\ ctl.pc = "persist" => ctl.vm \in VMs
         /\ ctl.pc = "anchor" => ctl.snap.created \in VMs
         /\ ctl.vm \in VMs \cup {None} /\ ctl.deleting \in BOOLEAN
  BY DEF SoundControls, Controls

-----------------------------------------------------------------------------
(* The inductive invariant. *)

Cleaning == {"clean", "anchor", "audit", "persist", "dependents", "release"}
Unissued == {"none", "reserved"}

(* At most one invocation has won the issue CAS and not sent its POST, and   *)
(* then none was sent; while the fence is unissued and the claim alive       *)
(* nothing was.  A cleanup pass may write back an unissued record, but it     *)
(* only starts from one when the claim is being deleted.                      *)
PostInv ==
    /\ posts <= 1
    /\ \A c, d \in Creators : At(c, "preflight") /\ At(d, "preflight") => c = d
    /\ \A c \in Creators : At(c, "preflight") => posts = 0
    /\ rec.phase \in Unissued /\ ~claim.deleting =>
          posts = 0 /\ \A c \in Creators : ~At(c, "preflight")
    /\ ctl.pc \in Cleaning /\ ctl.snap.phase \in Unissued => claim.deleting

Inv == TypeInv /\ PostInv

\* A step that neither issues nor sends keeps PostInv.
LEMMA PostFrame ==
  ASSUME PostInv, posts' = posts,
         \A c \in Creators : cr'[c].pc = "preflight" => cr[c].pc = "preflight",
         claim.deleting => claim'.deleting,
         rec'.phase \in Unissued => rec.phase \in Unissued \/ claim'.deleting,
         ctl'.pc \in Cleaning => ctl.pc \in Cleaning /\ ctl'.snap = ctl.snap
  PROVE  PostInv'
  BY DEF PostInv, At

LEMMA InitInv == Init => Inv
  <1> SUFFICES ASSUME Init PROVE Inv
    OBVIOUS
  <1>1. KubeOK /\ claim.deleting = FALSE
    BY NewRecords DEF Init, KubeOK, Claims, Updates, Removals
  <1>2. CloudOK
    BY DEF Init, CloudOK
  <1>3. cr \in [Creators -> SoundLocals] /\ \A c \in Creators : cr[c].pc = "idle"
    BY DEF Init, IdleCreate, SoundLocals, Locals, CreatePCs
  <1>4. ctl \in SoundControls /\ ctl.pc = "idle"
    BY NewRecords DEF Init, IdleController, SoundControls, SoundRecords, Controls, ControllerPCs
  <1>5. PostInv
    BY <1>3, <1>4 DEF Init, PostInv, At, Cleaning
  <1> QED
    BY <1>1, <1>2, <1>3, <1>4, <1>5 DEF Inv, TypeInv

-----------------------------------------------------------------------------
(* One lemma per step of Create. *)

LEMMA StartStep ==
  ASSUME Inv, NEW c \in Creators, Start(c)
  PROVE  Inv'
  <1> USE DEF Inv, TypeInv, KubeOK
  <1>0. /\ UNCHANGED <<fipu, operator>> /\ CloudOK' /\ posts' = posts
    BY DEF Start, cloud, CloudOK
  <1>1. /\ cr' \in [Creators -> SoundLocals]
        /\ \A d \in Creators : cr'[d].pc = "preflight" => cr[d].pc = "preflight"
    <2>1. [pc |-> "launch", allow |-> rec.phase \in {"none", "reserved"},
           issue |-> rec.issue, vm |-> rec.created, rb |-> FALSE,
           receipt |-> FALSE] \in SoundLocals
      BY RecordFields DEF SoundLocals, Locals, CreatePCs
    <2> QED
      BY <2>1 DEF Start
  <1>2. /\ claim' \in Claims /\ rec' \in SoundRecords /\ removal' \in Removals
        /\ ctl' \in SoundControls /\ ctl'.pc = ctl.pc /\ ctl'.snap = ctl.snap
        /\ claim'.deleting = claim.deleting
        /\ rec'.phase \in Unissued => rec.phase \in Unissued
    <2>1. CASE UNCHANGED <<rec, claim, removal, ctl>>
      BY <2>1
    <2>2. CASE /\ rec.phase = "none"
               /\ rec' = [NoFence EXCEPT !.phase = "reserved", !.fw = "intent"]
               /\ claim' = [claim EXCEPT !.prot = TRUE]
               /\ removal' = [phase |-> "ready", vm |-> None]
               /\ Stale
      BY <2>2, NewRecords, StaleSound, Zenon DEF Claims, Removals, Unissued
    <2> QED
      BY <2>1, <2>2 DEF Start
  <1> QED
    BY <1>0, <1>1, <1>2, PostFrame

LEMMA LaunchStep ==
  ASSUME Inv, NEW c \in Creators, Launch(c)
  PROVE  Inv'
  <1> USE DEF Inv, TypeInv
  <1>0. KubeOK' /\ CloudOK' /\ UNCHANGED <<claim, rec, posts, ctl>>
    BY DEF Launch, kube, cloud, KubeOK, CloudOK
  <1>1. /\ cr' \in [Creators -> SoundLocals]
        /\ \A d \in Creators : cr'[d].pc = "preflight" => cr[d].pc = "preflight"
    <2>1. CASE Goto(c, "authorize")
      BY <2>1, GotoSound DEF CreatePCs
    <2>2. CASE cr' = [cr EXCEPT ![c].pc = "anchor", ![c].rb = TRUE]
      <3> DEFINE l == [cr[c] EXCEPT !.pc = "anchor", !.rb = TRUE]
      <3>a. "anchor" \in CreatePCs
        BY DEF CreatePCs
      <3>b. l \in Locals /\ l.pc = "anchor" /\ l.receipt = cr[c].receipt
            /\ l.vm \in VMs \cup {None} /\ (cr[c].vm \in VMs => l.vm \in VMs)
        BY <3>a, Zenon DEF SoundLocals, Locals
      <3>1. l \in SoundLocals /\ l.pc = "anchor"
        BY <3>b, Zenon DEF SoundLocals
      <3>2. cr' = [cr EXCEPT ![c] = l]
        BY <2>2, Zenon
      <3> QED
        BY <3>1, <3>2, LocalSound
    <2>3. ASSUME NEW v \in VMs, cr' = [cr EXCEPT ![c].pc = "anchor", ![c].vm = v]
          PROVE  /\ cr' \in [Creators -> SoundLocals]
                 /\ \A d \in Creators : cr'[d].pc = "preflight" => cr[d].pc = "preflight"
      <3> DEFINE l == [cr[c] EXCEPT !.pc = "anchor", !.vm = v]
      <3>a. "anchor" \in CreatePCs
        BY DEF CreatePCs
      <3>b. l \in Locals /\ l.pc = "anchor" /\ l.receipt = cr[c].receipt
            /\ l.vm \in VMs \cup {None} /\ (cr[c].vm \in VMs => l.vm \in VMs)
        BY <3>a, Zenon DEF SoundLocals, Locals
      <3>1. l \in SoundLocals /\ l.pc = "anchor"
        BY <3>b, Zenon DEF SoundLocals
      <3>2. cr' = [cr EXCEPT ![c] = l]
        BY <2>3, Zenon
      <3> QED
        BY <3>1, <3>2, LocalSound
    <2> QED
      BY <2>1, <2>2, <2>3 DEF Launch, Live
  <1> QED
    BY <1>0, <1>1, PostFrame

LEMMA AuthorizeStep ==
  ASSUME Inv, NEW c \in Creators, Authorize(c)
  PROVE  Inv'
  <1> USE DEF Inv, TypeInv, KubeOK
  <1>0. UNCHANGED <<claim, fipu, removal, operator>> /\ CloudOK' /\ posts' = posts
    BY DEF Authorize, cloud, CloudOK
  <1>1. rec' \in SoundRecords /\ rec'.phase = "issued"
    BY AuthorizedSound DEF Authorize
  <1>2. /\ cr' \in [Creators -> SoundLocals]
        /\ \A d \in Creators : d # c => cr'[d] = cr[d]
    <2>1. PICK pc \in {"preflight", "reject"} :
            cr' = [cr EXCEPT ![c].pc = pc, ![c].issue = c]
      BY Zenon DEF Authorize
    <2> DEFINE l == [cr[c] EXCEPT !.pc = pc, !.issue = c]
    <2>2. l \in SoundLocals
      <3>1. cr[c] \in SoundLocals
        OBVIOUS
      <3>2. CASE pc = "preflight"
        BY <3>1, <3>2, Zenon DEF SoundLocals, Locals, CreatePCs
      <3>3. CASE pc = "reject"
        BY <3>1, <3>3, Zenon DEF SoundLocals, Locals, CreatePCs
      <3> QED
        BY <3>2, <3>3
    <2>3. cr' = [cr EXCEPT ![c] = l]
      BY <2>1, Zenon
    <2> QED
      BY <2>2, <2>3, LocalSound
  <1>3. ctl' \in SoundControls /\ ctl'.pc = ctl.pc /\ ctl'.snap = ctl.snap
    BY StaleSound DEF Authorize
  <1>4. posts = 0 /\ \A d \in Creators : ~At(d, "preflight")
    BY DEF Authorize, CanAuthorize, PostInv, Unissued
  <1>5. PostInv'
    BY <1>0, <1>1, <1>2, <1>3, <1>4 DEF PostInv, At, Unissued
  <1> QED
    BY <1>0, <1>1, <1>2, <1>3, <1>5

LEMMA PreflightStep ==
  ASSUME Inv, NEW c \in Creators, Preflight(c)
  PROVE  Inv'
  <1> USE DEF Inv, TypeInv
  <1>0. KubeOK' /\ UNCHANGED <<claim, rec, ctl, vm, fip, dropping, bad>>
    BY DEF Preflight, kube, KubeOK
  <1>1. CASE Goto(c, "reject") /\ UNCHANGED <<posting, posts>>
    <2>1. /\ cr' \in [Creators -> SoundLocals]
          /\ \A d \in Creators : cr'[d].pc = "preflight" => cr[d].pc = "preflight"
      BY <1>1, GotoSound DEF CreatePCs
    <2> QED
      BY <1>0, <1>1, <2>1, PostFrame DEF CloudOK
  <1>2. CASE posting' = posting \cup {c} /\ posts' = posts + 1 /\ Goto(c, "await")
    <2>1. /\ cr' \in [Creators -> SoundLocals] /\ cr'[c].pc = "await"
          /\ \A d \in Creators : d # c => cr'[d] = cr[d]
      BY <1>2, GotoSound DEF CreatePCs
    <2>2. At(c, "preflight")
      BY DEF Preflight
    <2>3. CloudOK'
      BY <1>0, <1>2 DEF CloudOK
    <2>4. posts = 0 /\ posts' = 1
      BY <1>2, <2>2 DEF PostInv
    <2>5. \A d \in Creators : cr'[d].pc # "preflight"
      BY <2>1, <2>2 DEF PostInv, At
    <2>6. ~(rec.phase \in Unissued /\ ~claim.deleting)
      BY <2>2 DEF PostInv
    <2>7. PostInv'
      BY <1>0, <2>4, <2>5, <2>6 DEF PostInv, At
    <2> QED
      BY <1>0, <2>1, <2>3, <2>7
  <1> QED
    BY <1>1, <1>2 DEF Preflight

LEMMA AnswerStep ==
  ASSUME Inv, NEW c \in Creators, Answer(c)
  PROVE  Inv'
  <1> USE DEF Inv, TypeInv
  <1>0. KubeOK' /\ CloudOK' /\ UNCHANGED <<claim, rec, posts, ctl>>
    BY DEF Answer, kube, cloud, KubeOK, CloudOK
  <1>1. /\ cr' \in [Creators -> SoundLocals]
        /\ \A d \in Creators : cr'[d].pc = "preflight" => cr[d].pc = "preflight"
    <2> DEFINE l == [cr[c] EXCEPT !.pc = "anchor", !.vm = c, !.rb = TRUE]
    <2>1. cr[c] \in SoundLocals
      OBVIOUS
    <2>2. l \in SoundLocals /\ l.pc = "anchor"
      BY <2>1, Zenon DEF SoundLocals, Locals, CreatePCs, VMs
    <2>3. cr' = [cr EXCEPT ![c] = l]
      BY Zenon DEF Answer
    <2> QED
      BY <2>2, <2>3, LocalSound
  <1> QED
    BY <1>0, <1>1, PostFrame


LEMMA MarkRejectedStep ==
  ASSUME Inv, NEW c \in Creators, MarkRejected(c)
  PROVE  Inv'
  <1> USE DEF Inv, TypeInv, KubeOK
  <1>0. UNCHANGED <<claim, fipu, removal, operator>> /\ CloudOK' /\ posts' = posts
    BY DEF MarkRejected, cloud, CloudOK
  <1>1. rec' \in SoundRecords /\ (rec'.phase \in Unissued => rec.phase \in Unissued)
    BY RejectedSound DEF MarkRejected, Unissued
  <1>2. /\ cr' \in [Creators -> SoundLocals]
        /\ \A d \in Creators : cr'[d].pc = "preflight" => cr[d].pc = "preflight"
    BY FinishSound, LocalFields DEF MarkRejected, CreatePCs, At
  <1>3. ctl' \in SoundControls /\ ctl'.pc = ctl.pc /\ ctl'.snap = ctl.snap
    BY StaleSound DEF MarkRejected
  <1> QED
    BY <1>0, <1>1, <1>2, <1>3, PostFrame


LEMMA RecordCreatedVMStep ==
  ASSUME Inv, NEW c \in Creators, RecordCreatedVM(c)
  PROVE  Inv'
  <1> USE DEF Inv, TypeInv, KubeOK
  <1>0. UNCHANGED <<claim, fipu, removal, operator>> /\ CloudOK' /\ posts' = posts
    BY DEF RecordCreatedVM, cloud, CloudOK
  <1>1. rec' \in SoundRecords /\ (rec'.phase \in Unissued => rec.phase \in Unissued)
    <2>1. cr[c].vm \in VMs \cup {None} /\ (rec.created = cr[c].vm \/ rec.phase = "issued")
      BY LocalFields DEF RecordCreatedVM, CanAnchor
    <2> QED
      BY <2>1, AnchoredSound, Zenon DEF RecordCreatedVM
  <1>2. /\ cr' \in [Creators -> SoundLocals]
        /\ \A d \in Creators : cr'[d].pc = "preflight" => cr[d].pc = "preflight"
    BY GotoSound, LocalFields DEF RecordCreatedVM, CreatePCs, At
  <1>3. ctl' \in SoundControls /\ ctl'.pc = ctl.pc /\ ctl'.snap = ctl.snap
    BY StaleSound DEF RecordCreatedVM
  <1> QED
    BY <1>0, <1>1, <1>2, <1>3, PostFrame


LEMMA ProtectStep ==
  ASSUME Inv, NEW c \in Creators, Protect(c)
  PROVE  Inv'
  <1> USE DEF Inv, TypeInv, KubeOK
  <1>0. UNCHANGED <<claim, fipu, removal, operator>> /\ CloudOK' /\ posts' = posts
    BY DEF Protect, cloud, CloudOK
  <1>1. rec' \in SoundRecords /\ (rec'.phase \in Unissued => rec.phase \in Unissued)
    BY FirewallSound, Zenon DEF Protect
  <1>2. /\ cr' \in [Creators -> SoundLocals]
        /\ \A d \in Creators : cr'[d].pc = "preflight" => cr[d].pc = "preflight"
    BY GotoSound, LocalFields DEF Protect, CreatePCs, At
  <1>3. ctl' \in SoundControls /\ ctl'.pc = ctl.pc /\ ctl'.snap = ctl.snap
    BY StaleSound DEF Protect
  <1> QED
    BY <1>0, <1>1, <1>2, <1>3, PostFrame


LEMMA ChooseRollbackStep ==
  ASSUME Inv, NEW c \in Creators, ChooseRollback(c)
  PROVE  Inv'
  <1> USE DEF Inv, TypeInv, KubeOK
  <1>0. UNCHANGED <<claim, fipu, removal, operator>> /\ CloudOK' /\ posts' = posts
    BY DEF ChooseRollback, cloud, CloudOK
  <1>1. rec' \in SoundRecords /\ (rec'.phase \in Unissued => rec.phase \in Unissued)
    <2>1. cr[c].receipt \in BOOLEAN /\ (cr[c].receipt => cr[c].vm \in VMs)
      BY LocalFields
    <2> QED
      BY <2>1, RolledBackSound DEF ChooseRollback
  <1>2. /\ cr' \in [Creators -> SoundLocals]
        /\ \A d \in Creators : cr'[d].pc = "preflight" => cr[d].pc = "preflight"
    BY GotoSound, LocalFields DEF ChooseRollback, CreatePCs, At
  <1>3. ctl' \in SoundControls /\ ctl'.pc = ctl.pc /\ ctl'.snap = ctl.snap
    BY StaleSound DEF ChooseRollback
  <1> QED
    BY <1>0, <1>1, <1>2, <1>3, PostFrame


LEMMA MarkMaterializedStep ==
  ASSUME Inv, NEW c \in Creators, MarkMaterialized(c)
  PROVE  Inv'
  <1> USE DEF Inv, TypeInv, KubeOK
  <1>0. UNCHANGED <<claim, fipu, removal, operator>> /\ CloudOK' /\ posts' = posts
    BY DEF MarkMaterialized, cloud, CloudOK
  <1>1. rec' \in SoundRecords /\ (rec'.phase \in Unissued => rec.phase \in Unissued)
    <2>1. rec.created \in VMs
      BY LocalFields DEF MarkMaterialized, CanMaterialize, At
    <2> QED
      BY <2>1, MaterializedSound DEF MarkMaterialized, Unissued
  <1>2. /\ cr' \in [Creators -> SoundLocals]
        /\ \A d \in Creators : cr'[d].pc = "preflight" => cr[d].pc = "preflight"
    BY GotoSound, LocalFields DEF MarkMaterialized, CreatePCs, At
  <1>3. ctl' \in SoundControls /\ ctl'.pc = ctl.pc /\ ctl'.snap = ctl.snap
    BY StaleSound DEF MarkMaterialized
  <1> QED
    BY <1>0, <1>1, <1>2, <1>3, PostFrame

LEMMA AuthorizeNameStep ==
  ASSUME Inv, NEW c \in Creators, AuthorizeName(c)
  PROVE  Inv'
  <1> USE DEF Inv, TypeInv, KubeOK
  <1>0. UNCHANGED <<claim, rec, removal, operator>> /\ CloudOK' /\ posts' = posts
    BY DEF AuthorizeName, cloud, CloudOK
  <1>1. fipu' \in Updates
    BY LocalFields DEF AuthorizeName, Updates
  <1>2. /\ cr' \in [Creators -> SoundLocals]
        /\ \A d \in Creators : cr'[d].pc = "preflight" => cr[d].pc = "preflight"
    BY GotoSound DEF AuthorizeName, CreatePCs
  <1>3. ctl' \in SoundControls /\ ctl'.pc = ctl.pc /\ ctl'.snap = ctl.snap
    BY StaleSound DEF AuthorizeName
  <1> QED
    BY <1>0, <1>1, <1>2, <1>3, PostFrame


LEMMA ObserveNameStep ==
  ASSUME Inv, NEW c \in Creators, ObserveName(c)
  PROVE  Inv'
  <1> USE DEF Inv, TypeInv, KubeOK
  <1>0. UNCHANGED <<claim, rec, removal, operator>> /\ CloudOK' /\ posts' = posts
    BY DEF ObserveName, cloud, CloudOK
  <1>1. fipu' \in Updates
    BY LocalFields DEF ObserveName, Updates
  <1>2. /\ cr' \in [Creators -> SoundLocals]
        /\ \A d \in Creators : cr'[d].pc = "preflight" => cr[d].pc = "preflight"
    <2>1. cr[c].vm \in VMs
      BY DEF ObserveName, Live
    <2> QED
      BY <2>1, GotoSound DEF ObserveName, CreatePCs
  <1>3. ctl' \in SoundControls /\ ctl'.pc = ctl.pc /\ ctl'.snap = ctl.snap
    BY StaleSound DEF ObserveName
  <1> QED
    BY <1>0, <1>1, <1>2, <1>3, PostFrame


LEMMA PatchStep ==
  ASSUME Inv, NEW c \in Creators, Patch(c)
  PROVE  Inv'
  <1> USE DEF Inv, TypeInv, KubeOK
  <1>0. UNCHANGED <<claim, rec, removal, operator, vm, posting, dropping, posts, bad>>
    BY DEF Patch
  <1>1. CASE /\ fip' = [fip EXCEPT ![cr[c].vm] = "named"]
             /\ Goto(c, "name") /\ UNCHANGED <<fipu, ctl>>
    <2>1. CloudOK'
      BY <1>0, <1>1, Zenon DEF CloudOK
    <2>2. /\ cr' \in [Creators -> SoundLocals]
          /\ \A d \in Creators : cr'[d].pc = "preflight" => cr[d].pc = "preflight"
      BY <1>1, GotoSound DEF CreatePCs
    <2> QED
      BY <1>0, <1>1, <2>1, <2>2, PostFrame
  <1>2. CASE /\ fipu' = [fipu EXCEPT !.phase = "rejected"]
             /\ Finish(c) /\ Stale /\ UNCHANGED fip
    <2>1. CloudOK' /\ fipu' \in Updates
      BY <1>0, <1>2 DEF CloudOK, Updates
    <2>2. /\ cr' \in [Creators -> SoundLocals]
          /\ \A d \in Creators : cr'[d].pc = "preflight" => cr[d].pc = "preflight"
      BY <1>2, FinishSound
    <2>3. ctl' \in SoundControls /\ ctl'.pc = ctl.pc /\ ctl'.snap = ctl.snap
      BY <1>2, StaleSound
    <2> QED
      BY <1>0, <1>2, <2>1, <2>2, <2>3, PostFrame
  <1> QED
    BY <1>1, <1>2 DEF Patch


LEMMA ProtectionFailsStep ==
  ASSUME Inv, NEW c \in Creators, ProtectionFails(c)
  PROVE  Inv'
  <1> USE DEF Inv, TypeInv
  <1>0. KubeOK' /\ CloudOK' /\ UNCHANGED <<claim, rec, posts, ctl>>
    BY DEF ProtectionFails, kube, cloud, KubeOK, CloudOK
  <1>1. /\ cr' \in [Creators -> SoundLocals]
        /\ \A d \in Creators : cr'[d].pc = "preflight" => cr[d].pc = "preflight"
    <2> DEFINE l == [cr[c] EXCEPT !.pc = "rollback", !.receipt = (fip[cr[c].vm] = "named")]
    <2>1. cr[c] \in SoundLocals /\ cr[c].vm \in VMs
      BY DEF ProtectionFails, Live
    <2>2. l \in SoundLocals /\ l.pc = "rollback"
      BY <2>1, Zenon DEF SoundLocals, Locals, CreatePCs
    <2>3. cr' = [cr EXCEPT ![c] = l]
      BY Zenon DEF ProtectionFails
    <2> QED
      BY <2>2, <2>3, LocalSound
  <1> QED
    BY <1>0, <1>1, PostFrame


LEMMA UndoLaunchStep ==
  ASSUME Inv, NEW c \in Creators, UndoLaunch(c)
  PROVE  Inv'
  <1> USE DEF Inv, TypeInv, KubeOK
  <1>0. /\ UNCHANGED <<claim, rec, fipu, operator, vm, posting, posts, bad>>
        /\ cr[c].vm \in VMs /\ cr[c].receipt \in BOOLEAN
    BY LocalFields DEF UndoLaunch, At
  <1>1. CASE SendDelete(cr[c].vm) /\ UNCHANGED <<fip, cr>>
    <2>1. removal' \in Removals /\ CloudOK'
      BY <1>0, <1>1, SendDeleteSound DEF CloudOK
    <2>2. ctl' \in SoundControls /\ ctl'.pc = ctl.pc /\ ctl'.snap = ctl.snap
      BY StaleSound DEF UndoLaunch
    <2> QED
      BY <1>0, <1>1, <2>1, <2>2, PostFrame
  <1>2. CASE /\ FinishDelete({cr[c].vm}, cr[c].receipt)
             /\ Finish(c) /\ UNCHANGED dropping
    <2>1. removal' \in Removals /\ CloudOK'
      BY <1>0, <1>2, FinishDeleteSound DEF CloudOK
    <2>2. ctl' \in SoundControls /\ ctl'.pc = ctl.pc /\ ctl'.snap = ctl.snap
      BY StaleSound DEF UndoLaunch
    <2>3. /\ cr' \in [Creators -> SoundLocals]
          /\ \A d \in Creators : cr'[d].pc = "preflight" => cr[d].pc = "preflight"
      BY <1>2, FinishSound
    <2> QED
      BY <1>0, <2>1, <2>2, <2>3, PostFrame
  <1> QED
    BY <1>1, <1>2 DEF UndoLaunch


LEMMA ReturnStep ==
  ASSUME Inv, NEW c \in Creators, Return(c)
  PROVE  Inv'
  <1> USE DEF Inv, TypeInv, KubeOK
  <1>0. UNCHANGED <<rec, fipu, removal, operator>> /\ CloudOK' /\ posts' = posts
    BY DEF Return, cloud, CloudOK
  <1>1. claim' \in Claims /\ claim'.deleting = claim.deleting
    BY LocalFields DEF Return, Claims
  <1>2. /\ cr' \in [Creators -> SoundLocals]
        /\ \A d \in Creators : cr'[d].pc = "preflight" => cr[d].pc = "preflight"
    BY FinishSound DEF Return
  <1>3. ctl' \in SoundControls /\ ctl'.pc = ctl.pc /\ ctl'.snap = ctl.snap
    BY StaleSound DEF Return
  <1> QED
    BY <1>0, <1>1, <1>2, <1>3, PostFrame


LEMMA KnownBadStep ==
  ASSUME Inv, NEW c \in Creators, KnownBad(c)
  PROVE  Inv'
  <1> USE DEF Inv, TypeInv, KubeOK
  <1>0. UNCHANGED <<claim, rec, fipu, removal, operator, ctl, posts>> /\ CloudOK'
    BY DEF KnownBad, kube, cloud, CloudOK
  <1>1. Goto(c, "recycle") /\ "recycle" \in CreatePCs /\ cr[c].vm \in VMs
    BY LocalFields DEF KnownBad, At, CreatePCs
  <1>2. /\ cr' \in [Creators -> SoundLocals]
        /\ \A d \in Creators : cr'[d].pc = "preflight" => cr[d].pc = "preflight"
    BY <1>1, GotoSound
  <1> QED
    BY <1>0, <1>2, PostFrame


LEMMA RecycleStep ==
  ASSUME Inv, NEW c \in Creators, Recycle(c)
  PROVE  Inv'
  <1> USE DEF Inv, TypeInv, KubeOK
  <1>0. /\ UNCHANGED <<fipu, operator, vm, posting, posts, bad>>
        /\ cr[c].vm \in VMs
    BY LocalFields DEF Recycle, At
  <1>1. ctl' \in SoundControls /\ ctl'.pc = ctl.pc /\ ctl'.snap = ctl.snap
    BY StaleSound DEF Recycle
  <1>2. CASE SendDelete(cr[c].vm) /\ UNCHANGED <<claim, rec, fip, cr>>
    <2>1. removal' \in Removals /\ CloudOK'
      BY <1>0, <1>2, SendDeleteSound DEF CloudOK
    <2> QED
      BY <1>0, <1>1, <1>2, <2>1, PostFrame
  <1>3. CASE /\ FinishDelete({cr[c].vm}, TRUE)
             /\ rec' = IF claim.prot THEN [rec EXCEPT !.marker = TRUE] ELSE rec
             /\ claim' = [claim EXCEPT !.deleting = TRUE]
             /\ Finish(c) /\ UNCHANGED dropping
    <2>1. removal' \in Removals /\ CloudOK'
      BY <1>0, <1>3, FinishDeleteSound, Zenon DEF CloudOK
    <2>2. /\ rec' \in SoundRecords /\ rec'.phase = rec.phase
          /\ claim' \in Claims /\ claim'.deleting
      BY <1>3, MarkerSound, Zenon DEF Claims
    <2>3. /\ cr' \in [Creators -> SoundLocals]
          /\ \A d \in Creators : cr'[d].pc = "preflight" => cr[d].pc = "preflight"
      BY <1>3, FinishSound
    <2> QED
      BY <1>0, <1>1, <2>1, <2>2, <2>3, PostFrame
  <1> QED
    BY <1>2, <1>3, Zenon DEF Recycle


LEMMA AbandonStep ==
  ASSUME Inv, NEW c \in Creators, Abandon(c)
  PROVE  Inv'
  <1> USE DEF Inv, TypeInv
  <1>0. KubeOK' /\ CloudOK' /\ UNCHANGED <<claim, rec, posts, ctl>>
    BY DEF Abandon, kube, cloud, KubeOK, CloudOK
  <1>1. /\ cr' \in [Creators -> SoundLocals]
        /\ \A d \in Creators : cr'[d].pc = "preflight" => cr[d].pc = "preflight"
    BY FinishSound DEF Abandon
  <1> QED
    BY <1>0, <1>1, PostFrame

-----------------------------------------------------------------------------
(* One lemma per step of the controller. *)

LEMMA CtlReadStep ==
  ASSUME Inv, CtlRead
  PROVE  Inv'
  <1> USE DEF Inv, TypeInv
  <1>0. KubeOK' /\ CloudOK' /\ UNCHANGED <<claim, rec, posts, cr>>
    BY DEF CtlRead, kube, cloud, KubeOK, CloudOK
  <1>1. /\ ctl'.pc \in {"choose", "operator", "clean", "protect"}
        /\ ctl'.snap = rec /\ ctl' \in SoundControls
    <2>1. rec \in SoundRecords /\ rec \in Records /\ claim.deleting \in BOOLEAN
      BY DEF KubeOK, SoundRecords, Claims
    <2>2. PICK pc \in {"choose", "operator", "clean", "protect"} :
            ctl' = [pc |-> pc, snap |-> rec, aud |-> rec, deleting |-> claim.deleting,
                    fresh |-> TRUE, vm |-> None]
      BY Zenon DEF CtlRead
    <2> QED
      BY <2>1, <2>2 DEF SoundControls, Controls, ControllerPCs
  <1>2. ctl'.pc = "clean" /\ rec.phase \in Unissued => claim.deleting
    <2> SUFFICES ASSUME ctl'.pc = "clean", rec.phase \in Unissued, ~claim.deleting
                 PROVE  FALSE
      OBVIOUS
    <2>1. ~ChooseBranch(rec) /\ operator.result = "none"
      BY DEF CtlRead
    <2> QED
      BY <2>1 DEF CtlRead, Unissued
  <1>3. PostInv'
    BY <1>0, <1>1, <1>2 DEF PostInv, At, Cleaning
  <1> QED
    BY <1>0, <1>1, <1>3


LEMMA CtlChooseStep ==
  ASSUME Inv, CtlChoose
  PROVE  Inv'
  <1> USE DEF Inv, TypeInv, KubeOK
  <1>0. UNCHANGED <<claim, fipu, removal, operator>> /\ CloudOK' /\ UNCHANGED <<posts, cr>>
    BY DEF CtlChoose, cloud, CloudOK
  <1>1. rec' \in SoundRecords /\ (rec'.phase \in Unissued => rec.phase \in Unissued)
    <2>1. /\ (rec.created \in ctl.snap.receipts) \in BOOLEAN
          /\ rec.created \in ctl.snap.receipts => rec.created \in VMs
      BY ControlFields, RecordFields
    <2> QED
      BY <2>1, RolledBackSound, Zenon DEF CtlChoose
  <1>2. ctl' \in SoundControls /\ ctl'.pc = "idle"
    BY DoneSound DEF CtlChoose
  <1> QED
    BY <1>0, <1>1, <1>2, PostFrame DEF Cleaning


LEMMA CtlProtectStep ==
  ASSUME Inv, CtlProtect
  PROVE  Inv'
  <1> USE DEF Inv, TypeInv, KubeOK
  <1>0. UNCHANGED <<claim, removal, operator>> /\ CloudOK' /\ UNCHANGED <<posts, cr>>
    BY DEF CtlProtect, cloud, CloudOK
  <1>1. rec' \in SoundRecords /\ (rec'.phase \in Unissued => rec.phase \in Unissued) /\ fipu' \in Updates
    BY FirewallSound DEF CtlProtect, Updates
  <1>2. ctl' \in SoundControls /\ ctl'.pc = "idle"
    BY DoneSound DEF CtlProtect
  <1> QED
    BY <1>0, <1>1, <1>2, PostFrame DEF Cleaning


LEMMA CtlProtectFailsStep ==
  ASSUME Inv, CtlProtectFails
  PROVE  Inv'
  <1> USE DEF Inv, TypeInv, KubeOK
  <1>0. UNCHANGED <<claim, fipu, removal, operator>> /\ CloudOK' /\ UNCHANGED <<posts, cr>>
    BY DEF CtlProtectFails, cloud, CloudOK
  <1>1. rec' \in SoundRecords /\ (rec'.phase \in Unissued => rec.phase \in Unissued)
    <2>1. /\ (fipu.phase \in {"issued", "observed"}) \in BOOLEAN
          /\ rec.created \in VMs
      BY RecordFields DEF CtlProtectFails
    <2> QED
      BY <2>1, RolledBackSound, Zenon DEF CtlProtectFails
  <1>2. ctl' \in SoundControls /\ ctl'.pc = "idle"
    BY DoneSound DEF CtlProtectFails
  <1> QED
    BY <1>0, <1>1, <1>2, PostFrame DEF Cleaning


LEMMA CtlReceiptsStep ==
  ASSUME Inv, CtlReceipts
  PROVE  Inv'
  <1> USE DEF Inv, TypeInv, KubeOK
  <1> DEFINE R == Receipts(ctl.snap)
  <1>0. /\ UNCHANGED <<claim, rec, fipu, operator, vm, posting, posts, bad, cr>>
        /\ ctl.pc = "clean" /\ R \subseteq VMs
    BY ControlFields, ReceiptsSound DEF CtlReceipts, CtlAt
  <1>1. CASE /\ \E v \in R : SendDelete(v)
             /\ ctl' = Refreshed("clean", None) /\ UNCHANGED fip
    <2>1. removal' \in Removals /\ CloudOK'
      BY <1>0, <1>1, SendDeleteSound DEF CloudOK
    <2>2. ctl' \in SoundControls /\ ctl'.snap = ctl.snap
      BY <1>0, <1>1, RefreshedSound DEF ControllerPCs
    <2> QED
      BY <1>0, <2>1, <2>2, PostFrame DEF Cleaning
  <1>2. CASE /\ FinishDelete(R, TRUE)
             /\ LET next == IF ctl.snap.created \in R \cup {None}
                            THEN "audit" ELSE "anchor"
                IN  ctl' = IF <<removal, fip>>' = <<removal, fip>>
                           THEN [ctl EXCEPT !.pc = next] ELSE Refreshed(next, None)
             /\ UNCHANGED dropping
    <2>1. removal' \in Removals /\ CloudOK'
      BY <1>0, <1>2, FinishDeleteSound, Zenon DEF CloudOK
    <2>2. PICK pc \in {"audit", "anchor"} :
            /\ pc = "anchor" => ctl.snap.created \notin R \cup {None}
            /\ ctl' = [ctl EXCEPT !.pc = pc] \/ ctl' = Refreshed(pc, None)
      BY <1>2
    <2>3. pc = "anchor" => ctl.snap.created \in VMs
      BY <2>2, ControlFields, RecordFields
    <2>4. ctl' \in SoundControls /\ ctl'.snap = ctl.snap
      <3>1. CASE ctl' = [ctl EXCEPT !.pc = pc]
        BY <2>3, <3>1 DEF SoundControls, Controls, ControllerPCs
      <3>2. CASE ctl' = Refreshed(pc, None)
        BY <1>0, <2>3, <3>2, RefreshedSound DEF ControllerPCs
      <3> QED
        BY <2>2, <3>1, <3>2
    <2> QED
      BY <1>0, <2>1, <2>4, PostFrame DEF Cleaning
  <1> QED
    BY <1>1, <1>2, Zenon DEF CtlReceipts


\* What naming an address leaves behind.
LEMMA NameAddressSound ==
  ASSUME NEW v \in VMs, NameAddress(v),
         fip \in [VMs -> {"none", "auto", "named", "loose", "looseNamed"}]
  PROVE  /\ fip' \in [VMs -> {"none", "auto", "named", "loose", "looseNamed"}]
         /\ fipu' \in Updates
  BY DEF NameAddress, Updates


LEMMA CtlAnchorStep ==
  ASSUME Inv, CtlAnchor
  PROVE  Inv'
  <1> USE DEF Inv, TypeInv, KubeOK
  <1> DEFINE v == ctl.snap.created
  <1>0. /\ UNCHANGED <<claim, rec, operator, vm, posting, posts, bad, cr>>
        /\ ctl.pc = "anchor" /\ v \in VMs
    BY ControlFields DEF CtlAnchor, CtlAt
  <1> HIDE DEF v
  <1>1. CASE /\ NameAddress(v) /\ ctl' = Refreshed("persist", v)
             /\ UNCHANGED <<removal, dropping>>
    <2>1. fipu' \in Updates /\ CloudOK'
      BY <1>0, <1>1, NameAddressSound DEF CloudOK
    <2>2. ctl' \in SoundControls /\ ctl'.snap = ctl.snap
      BY <1>0, <1>1, RefreshedSound DEF ControllerPCs
    <2> QED
      BY <1>0, <1>1, <2>1, <2>2, PostFrame DEF Cleaning
  <1>2. CASE /\ SendDelete(v) /\ ctl' = Refreshed("anchor", None)
             /\ UNCHANGED <<fip, fipu>>
    <2>1. removal' \in Removals /\ CloudOK'
      BY <1>0, <1>2, SendDeleteSound DEF CloudOK
    <2>2. ctl' \in SoundControls /\ ctl'.snap = ctl.snap
      BY <1>0, <1>2, RefreshedSound DEF ControllerPCs, v
    <2> QED
      BY <1>0, <1>2, <2>1, <2>2, PostFrame DEF Cleaning
  <1>3. CASE /\ FinishDelete({v}, FALSE)
             /\ \/ ctl' = [ctl EXCEPT !.pc = "audit"]
                \/ ctl' = Refreshed("audit", None)
             /\ UNCHANGED <<fipu, dropping>>
    <2>1. removal' \in Removals /\ CloudOK'
      BY <1>0, <1>3, FinishDeleteSound, Zenon DEF CloudOK
    <2>2. ctl' \in SoundControls /\ ctl'.snap = ctl.snap
      <3>1. CASE ctl' = [ctl EXCEPT !.pc = "audit"]
        BY <3>1 DEF SoundControls, Controls, ControllerPCs
      <3>2. CASE ctl' = Refreshed("audit", None)
        BY <1>0, <3>2, RefreshedSound DEF ControllerPCs
      <3> QED
        BY <1>3, <3>1, <3>2
    <2> QED
      BY <1>0, <1>3, <2>1, <2>2, PostFrame DEF Cleaning
  <1> QED
    BY <1>1, <1>2, <1>3, Zenon DEF CtlAnchor, v


LEMMA CtlResolveStep ==
  ASSUME Inv, CtlResolve
  PROVE  Inv'
  <1> USE DEF Inv, TypeInv, KubeOK
  <1>0. /\ UNCHANGED <<claim, removal, operator, vm, posting, dropping, posts, bad, cr>>
        /\ ctl.pc = "audit"
    BY DEF CtlResolve, CtlAt
  <1>1. PICK v \in VMs :
          /\ NameAddress(v)
          /\ rec' = IF CanAssignFirewall(v) THEN [rec EXCEPT !.fw = "observed"] ELSE rec
          /\ ctl' = Refreshed("persist", v)
    BY DEF CtlResolve, Live
  <1>2. rec' \in SoundRecords /\ rec'.phase = rec.phase
    BY <1>1, FirewallSound
  <1>3. fipu' \in Updates /\ CloudOK'
    BY <1>0, <1>1, NameAddressSound DEF CloudOK
  <1>4. ctl' \in SoundControls /\ ctl'.snap = ctl.snap
    BY <1>1, <1>2, RefreshedSound DEF ControllerPCs
  <1> QED
    BY <1>0, <1>2, <1>3, <1>4, PostFrame DEF Cleaning


LEMMA CtlAuditStep ==
  ASSUME Inv, CtlAudit
  PROVE  Inv'
  <1> USE DEF Inv, TypeInv
  <1>0. KubeOK' /\ CloudOK' /\ UNCHANGED <<claim, rec, posts, cr>> /\ ctl.pc = "audit"
    BY DEF CtlAudit, CtlAt, kube, cloud, KubeOK, CloudOK
  <1>1. PICK pc \in {"dependents", "release"} : ctl' = [ctl EXCEPT !.pc = pc]
    BY DEF CtlAudit
  <1>2. ctl' \in SoundControls /\ ctl'.snap = ctl.snap
    BY <1>1 DEF SoundControls, Controls, ControllerPCs
  <1> QED
    BY <1>0, <1>2, PostFrame DEF Cleaning


LEMMA CtlPersistStep ==
  ASSUME Inv, CtlPersist
  PROVE  Inv'
  <1> USE DEF Inv, TypeInv, KubeOK
  <1>0. UNCHANGED <<claim, fipu, removal, operator>> /\ CloudOK' /\ UNCHANGED <<posts, cr>>
    BY DEF CtlPersist, cloud, CloudOK
  <1>1. rec' \in SoundRecords /\ (rec'.phase \in Unissued => claim.deleting)
    <2>1. ctl.pc = "persist"
      BY DEF CtlPersist, CtlAt
    <2>2. rec' \in SoundRecords /\ rec'.phase = ctl.snap.phase
      BY <2>1, ControlFields, WithReceiptSound DEF CtlPersist
    <2> QED
      BY <2>1, <2>2 DEF PostInv, Cleaning
  <1>2. ctl' \in SoundControls /\ ctl'.pc = "idle"
    BY DoneSound DEF CtlPersist
  <1> QED
    BY <1>0, <1>1, <1>2, PostFrame DEF Cleaning


LEMMA CtlDependentsStep ==
  ASSUME Inv, CtlDependents
  PROVE  Inv'
  <1> USE DEF Inv, TypeInv, KubeOK
  <1>0. UNCHANGED <<claim, fipu, removal, operator>> /\ CloudOK' /\ UNCHANGED <<posts, cr>>
    BY DEF CtlDependents, cloud, CloudOK
  <1>1. rec' \in SoundRecords /\ (rec'.phase \in Unissued => claim.deleting)
    <2>1. ctl.pc = "dependents"
      BY DEF CtlDependents, CtlAt
    <2>2. rec' \in SoundRecords /\ rec'.phase = ctl.snap.phase
      BY <2>1, ControlFields, DependentsSound, Zenon DEF CtlDependents
    <2> QED
      BY <2>1, <2>2 DEF PostInv, Cleaning
  <1>2. ctl' \in SoundControls /\ ctl'.pc = "idle"
    BY DoneSound DEF CtlDependents
  <1> QED
    BY <1>0, <1>1, <1>2, PostFrame DEF Cleaning


LEMMA CtlReleaseStep ==
  ASSUME Inv, CtlRelease
  PROVE  Inv'
  <1> USE DEF Inv, TypeInv, KubeOK
  <1>0. UNCHANGED <<fipu, removal, operator>> /\ CloudOK' /\ UNCHANGED <<posts, cr>>
    BY DEF CtlRelease, cloud, CloudOK
  <1>1. /\ claim' \in Claims /\ claim'.deleting = claim.deleting /\ claim.deleting
        /\ rec' \in SoundRecords
    BY NewRecords, Zenon DEF CtlRelease, Claims
  <1>2. ctl' \in SoundControls /\ ctl'.pc = "idle"
    BY DoneSound DEF CtlRelease
  <1> QED
    BY <1>0, <1>1, <1>2, PostFrame DEF Cleaning


LEMMA CtlOperatorVMStep ==
  ASSUME Inv, CtlOperatorVM
  PROVE  Inv'
  <1> USE DEF Inv, TypeInv, KubeOK
  <1>0. UNCHANGED <<claim, fipu, removal>> /\ CloudOK' /\ UNCHANGED <<posts, cr>>
    BY DEF CtlOperatorVM, cloud, CloudOK
  <1>1. rec' \in SoundRecords /\ (rec'.phase \in Unissued => rec.phase \in Unissued)
    <2>1. CASE rec' = rec
      BY <2>1
    <2>2. CASE /\ operator.vm \in Live /\ CanAssignFirewall(operator.vm)
               /\ rec' = [Anchored(operator.vm) EXCEPT !.fw = "observed"]
      BY <2>2, AnchoredSound DEF CanAssignFirewall, Live
    <2> QED
      BY <2>1, <2>2 DEF CtlOperatorVM
  <1>2. ctl' \in SoundControls /\ ctl'.pc = "idle"
    BY DoneSound DEF CtlOperatorVM
  <1>3. operator' \in [result : {"none", "vm", "noResult"}, vm : VMs \cup {None}]
    BY DEF CtlOperatorVM, ClearOperator
  <1> QED
    BY <1>0, <1>1, <1>2, <1>3, PostFrame DEF Cleaning


LEMMA CtlOperatorNoResultStep ==
  ASSUME Inv, CtlOperatorNoResult
  PROVE  Inv'
  <1> USE DEF Inv, TypeInv, KubeOK
  <1>0. UNCHANGED <<claim, fipu, removal>> /\ CloudOK' /\ UNCHANGED <<posts, cr>>
    BY DEF CtlOperatorNoResult, cloud, CloudOK
  <1>1. rec' \in SoundRecords /\ (rec'.phase \in Unissued => rec.phase \in Unissued)
    BY RejectedSound DEF CtlOperatorNoResult, Unissued
  <1>2. ctl' \in SoundControls /\ ctl'.pc = "idle"
    BY DoneSound DEF CtlOperatorNoResult
  <1>3. operator' \in [result : {"none", "vm", "noResult"}, vm : VMs \cup {None}]
    BY DEF CtlOperatorNoResult, ClearOperator
  <1> QED
    BY <1>0, <1>1, <1>2, <1>3, PostFrame DEF Cleaning


LEMMA CtlAbandonStep ==
  ASSUME Inv, CtlAbandon
  PROVE  Inv'
  <1> USE DEF Inv, TypeInv
  <1>0. KubeOK' /\ CloudOK' /\ UNCHANGED <<claim, rec, posts, cr>>
    BY DEF CtlAbandon, kube, cloud, KubeOK, CloudOK
  <1>1. ctl' \in SoundControls /\ ctl'.pc = "idle"
    BY DoneSound DEF CtlAbandon
  <1> QED
    BY <1>0, <1>1, PostFrame DEF Cleaning

-----------------------------------------------------------------------------
(* Karpenter, the operator and the cloud. *)

LEMMA DeleteClaimStep ==
  ASSUME Inv, DeleteClaim
  PROVE  Inv'
  <1> USE DEF Inv, TypeInv, KubeOK
  <1>0. UNCHANGED <<rec, fipu, removal, operator>> /\ CloudOK' /\ UNCHANGED <<posts, cr>>
    BY DEF DeleteClaim, cloud, CloudOK
  <1>1. claim' \in Claims /\ claim'.deleting
    BY Zenon DEF DeleteClaim, Claims
  <1>2. ctl' \in SoundControls /\ ctl'.pc = ctl.pc /\ ctl'.snap = ctl.snap
    BY StaleSound DEF DeleteClaim
  <1> QED
    BY <1>0, <1>1, <1>2, PostFrame

LEMMA TerminateStep ==
  ASSUME Inv, Terminate
  PROVE  Inv'
  <1> USE DEF Inv, TypeInv, KubeOK
  <1>0. UNCHANGED <<fipu, operator, vm, posting, posts, bad, cr>>
    BY DEF Terminate
  <1>1. ctl' \in SoundControls /\ ctl'.pc = ctl.pc /\ ctl'.snap = ctl.snap
    BY StaleSound DEF Terminate
  <1>2. CASE claim' = [claim EXCEPT !.term = FALSE] /\ UNCHANGED <<rec, removal, fip, dropping>>
    <2>1. claim' \in Claims /\ claim'.deleting = claim.deleting
      BY <1>2, Zenon DEF Claims
    <2> QED
      BY <1>0, <1>1, <1>2, <2>1, PostFrame DEF CloudOK
  <1>3. CASE claim.pid # None /\ SendDelete(claim.pid) /\ UNCHANGED <<claim, rec, fip>>
    <2>1. claim.pid \in VMs
      BY <1>3 DEF Claims
    <2>2. removal' \in Removals /\ CloudOK'
      BY <1>0, <1>3, <2>1, SendDeleteSound DEF CloudOK
    <2> QED
      BY <1>0, <1>1, <1>3, <2>2, PostFrame
  <1>4. CASE /\ FinishDelete({claim.pid}, TRUE)
             /\ rec' = [rec EXCEPT !.marker = TRUE]
             /\ claim' = [claim EXCEPT !.term = FALSE]
             /\ UNCHANGED dropping
    <2>1. claim' \in Claims /\ claim'.deleting = claim.deleting
      BY <1>4, Zenon DEF Claims
    <2>2. removal' \in Removals /\ CloudOK'
      BY <1>0, <1>4, FinishDeleteSound, Zenon DEF CloudOK
    <2>3. rec' \in SoundRecords /\ rec'.phase = rec.phase
      BY <1>4, MarkerSound
    <2> QED
      BY <1>0, <1>1, <2>1, <2>2, <2>3, PostFrame
  <1> QED
    BY <1>2, <1>3, <1>4, Zenon DEF Terminate

LEMMA VanishStep ==
  ASSUME Inv, Vanish
  PROVE  Inv'
  <1> USE DEF Inv, TypeInv, KubeOK
  <1>0. UNCHANGED <<rec, fipu, removal, operator>> /\ CloudOK' /\ UNCHANGED <<posts, cr, ctl>>
    BY DEF Vanish, cloud, CloudOK
  <1>1. claim' \in Claims /\ claim'.deleting = claim.deleting
    BY Zenon DEF Vanish, Claims
  <1> QED
    BY <1>0, <1>1, PostFrame

LEMMA OperatorDecidesStep ==
  ASSUME Inv, OperatorDecides
  PROVE  Inv'
  <1>1. operator' \in [result : {"none", "vm", "noResult"}, vm : VMs \cup {None}]
    <2>1. \/ \E v \in VMs : operator' = [result |-> "vm", vm |-> v]
          \/ operator' = [result |-> "noResult", vm |-> None]
      BY Zenon DEF OperatorDecides, Live
    <2> QED BY <2>1
  <1> USE DEF Inv, TypeInv, KubeOK
  <1>0. UNCHANGED <<claim, rec, fipu, removal>> /\ CloudOK' /\ UNCHANGED <<posts, cr, ctl>>
    BY DEF OperatorDecides, cloud, CloudOK
  <1> QED
    BY <1>0, <1>1, PostFrame

LEMMA CloudStep ==
  ASSUME Inv, \/ \E c \in Creators : PostSettles(c)
              \/ \E v \in VMs : DeleteCommits(v) \/ DeleteLost(v)
  PROVE  Inv'
  <1> USE DEF Inv, TypeInv
  <1>0. KubeOK' /\ UNCHANGED <<claim, rec, posts, cr, ctl>>
    BY DEF PostSettles, DeleteCommits, DeleteLost, kube, KubeOK
  <1>1. ASSUME NEW c \in Creators, PostSettles(c) PROVE CloudOK'
    BY <1>1 DEF PostSettles, CloudOK, VMs
  <1>2. ASSUME NEW v \in VMs, DeleteCommits(v) PROVE CloudOK'
    BY <1>2 DEF DeleteCommits, CloudOK
  <1>3. ASSUME NEW v \in VMs, DeleteLost(v) PROVE CloudOK'
    BY <1>3 DEF DeleteLost, CloudOK
  <1> QED
    BY <1>0, <1>1, <1>2, <1>3, PostFrame

-----------------------------------------------------------------------------

LEMMA StutterStep ==
  ASSUME Inv, UNCHANGED vars
  PROVE  Inv'
  <1>1. KubeOK' /\ CloudOK' /\ UNCHANGED <<claim, rec, posts, cr, ctl>>
    BY DEF vars, kube, cloud, Inv, TypeInv, KubeOK, CloudOK
  <1> QED
    BY <1>1, PostFrame DEF Inv, TypeInv

LEMMA NextInv == Inv /\ [Next]_vars => Inv'
  <1> SUFFICES ASSUME Inv, [Next]_vars PROVE Inv'
    OBVIOUS
  <1>1. ASSUME NEW c \in Creators, Create(c) PROVE Inv'
    BY <1>1, StartStep, LaunchStep, AuthorizeStep, PreflightStep, AnswerStep,
       MarkRejectedStep, RecordCreatedVMStep, ProtectStep, AuthorizeNameStep,
       PatchStep, ObserveNameStep, ProtectionFailsStep, ChooseRollbackStep,
       UndoLaunchStep, MarkMaterializedStep, ReturnStep, KnownBadStep,
       RecycleStep, AbandonStep
    DEF Create
  <1>2. CASE Controller
    BY <1>2, CtlReadStep, CtlChooseStep, CtlProtectStep, CtlProtectFailsStep,
       CtlReceiptsStep, CtlAnchorStep, CtlResolveStep, CtlAuditStep,
       CtlPersistStep, CtlDependentsStep, CtlReleaseStep, CtlOperatorVMStep,
       CtlOperatorNoResultStep, CtlAbandonStep
    DEF Controller
  <1> QED
    BY <1>1, <1>2, DeleteClaimStep, TerminateStep, VanishStep, OperatorDecidesStep,
       CloudStep, StutterStep DEF Next

(* For every set of Create invocations, overlapping, crashing and losing     *)
(* their answers in any way, the launch fence stays well typed and one        *)
(* NodeClaim sends at most one VM POST: Authorize's CAS is won once, and the   *)
(* cleanup passes that write back a record they read earlier can only restore *)
(* an unissued one on a claim that is being deleted, where Authorize refuses.  *)
THEOREM OnePost == Spec => [](TypeOK /\ AtMostOnePost)
  <1>1. Inv => TypeOK /\ AtMostOnePost
    BY TypeInvImpliesTypeOK DEF Inv, PostInv, AtMostOnePost
  <1> QED
    BY InitInv, NextInv, <1>1, PTL DEF Spec

=============================================================================
