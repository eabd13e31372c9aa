--------------------------- MODULE NodeLBTheorems ---------------------------
(***************************************************************************)
(* Proofs about NodeLB, for every plan (any Services, edits, deletions,      *)
(* faults and outside deletions): the receipts on the NodePool admit one     *)
(* write of the shard's firewall at a time, and the NodePool outlives the    *)
(* firewall it is the record of.                                             *)
(***************************************************************************)
EXTENDS NodeLB, FiniteSetTheorems, TLAPS

Creates == {m \in wire : m.op = "create"}

(* Where the worker has issued a write; where it deletes the firewall; where *)
(* the delete has been proved.                                               *)
Writing == {"authorize", "send", "reply"}
Deleting == {"delete", "authorizeDelete", "sendDelete", "deleteReply"}
Proving == At("prove") \/ At("unpool") \/ (At("close") /\ work.then = "prove")

Goals == {"none", "serve", "restage", "drain", "cleanup", "quarantine", "authorizeDatapath", "publish"}
Thens == {"idle", "child", "fence", "owner", "drop", "deletePool", "prove"}

WorkInv ==
    /\ DOMAIN work = DOMAIN Idle
    /\ work.goal \in Goals
    /\ At("close") => work.then \in Thens

(* Identities are never reused. *)
CloudInv ==
    /\ DOMAIN fw = {"id", "rules", "last"}
    /\ fw.last \in Nat /\ fw.id \in Nat /\ fw.id <= fw.last
    /\ \A m \in wire : m.op \in {"create", "put", "delete"}
    /\ \A m \in wire : m.op = "put" => m.id \in Nat /\ m.id # 0 /\ m.id <= fw.last

PoolInv ==
    /\ DOMAIN pool = DOMAIN NoPool
    /\ pool.uuid \in Nat /\ pool.uuid <= fw.last
    /\ pool.life # "deleting" => pool.target = 0 /\ pool.seen = 0
    /\ pool.rejected => pool.issued
    /\ work.pc \in Deleting => pool.life = "deleting"

(* The write a receipt stands for, from its issue to the reply. *)
IssuedInv == work.pc \in Writing =>
    /\ pool.life # "none" /\ pool.issued /\ ~pool.rejected /\ pool.pending = work.des
    /\ work.op \in {"create", "put"}
    /\ work.pc # "reply" =>
          /\ Writes = {}
          /\ IF work.op = "create" THEN pool.uuid = 0 /\ Identity = 0 /\ ~Listed
             ELSE pool.uuid # 0 /\ (fw.id = pool.uuid => Hash(fw.rules) # Hash(pool.pending))

(* A write that can still take effect has its receipt, and is the only one;  *)
(* its policy is not yet to be seen.                                         *)
WriteInv ==
    /\ \A m \in Writes :
          /\ pool.issued /\ m.id = pool.uuid /\ m.rules = pool.pending
          /\ At("reply") => m = Request
          /\ IF m.op = "create" THEN ~pool.rejected /\ Identity = 0 /\ ~Listed
             ELSE Hash(fw.rules) # Hash(pool.pending)
    /\ \A m1, m2 \in Writes : m1 = m2

(* Once its delete is proved, and when the NodePool is gone, there is no     *)
(* firewall and no create of one.                                            *)
OrphanInv == pool.life = "none" \/ Proving => ~Listed /\ Creates = {}

ShardInv == WorkInv /\ CloudInv /\ PoolInv /\ IssuedInv /\ WriteInv /\ OrphanInv

-----------------------------------------------------------------------------
LEMMA WorkFields ==
  DOMAIN Idle = {"pc", "s", "goal", "pol", "todo", "clear", "then", "des", "op", "n", "out"}
  BY DEF Idle

LEMMA PoolFields ==
  DOMAIN NoPool = {"life", "vms", "uuid", "applied", "pending", "issued", "rejected", "absent",
                   "seen", "target", "deleting", "gone"}
  BY DEF NoPool

(* Moving the worker. *)
LEMMA GotoMoves ==
  ASSUME WorkInv, NEW pc, Goto(pc)
  PROVE  /\ work'.pc = pc /\ DOMAIN work' = DOMAIN Idle /\ work'.goal \in Goals
         /\ pc # "idle" => work'.then = work.then /\ work'.des = work.des /\ work'.op = work.op
  BY WorkFields DEF WorkInv, Goto, Idle, Goals

LEMMA RestMoves ==
  ASSUME NEW w, DOMAIN w = DOMAIN Idle, w.pc = "close", w.goal \in Goals
  PROVE  LET r == Rest(w) IN
         /\ DOMAIN r = DOMAIN Idle /\ r.goal \in Goals
         /\ (r.pc = "close" /\ r.then = w.then) \/ r.pc = w.then
  BY WorkFields DEF Rest, Idle, Goals

LEMMA CloseMoves ==
  ASSUME WorkInv, NEW todo, NEW clear, NEW then, Close(todo, clear, then)
  PROVE  /\ DOMAIN work' = DOMAIN Idle /\ work'.goal \in Goals
         /\ (work'.pc = "close" /\ work'.then = then) \/ work'.pc = then
  <1> DEFINE w == [work EXCEPT !.pc = "close", !.todo = todo, !.clear = clear, !.then = then]
  <1>1. DOMAIN w = DOMAIN Idle /\ w.pc = "close" /\ w.goal = work.goal /\ w.then = then
    BY WorkFields DEF WorkInv
  <1> HIDE DEF w
  <1>2. work' = Rest(w)
    BY DEF Close, w
  <1> QED
    BY <1>1, <1>2, RestMoves DEF WorkInv

(* The worker is nowhere in the middle of a write, a delete or a proof. *)
Calm(w) ==
    /\ DOMAIN w = DOMAIN Idle /\ w.goal \in Goals
    /\ w.pc \notin Writing \cup Deleting \cup {"prove", "unpool"}
    /\ w.pc = "close" => w.then \in Thens \ {"prove"}

LEMMA IdleCalm == Calm(Idle)
  BY DEF Calm, Idle, Goals, Writing, Deleting

LEMMA GotoCalm ==
  ASSUME WorkInv, NEW pc, Goto(pc), pc \notin Writing \cup Deleting \cup {"prove", "unpool", "close"}
  PROVE  Calm(work')
  BY GotoMoves DEF Calm

LEMMA CloseCalm ==
  ASSUME WorkInv, NEW todo, NEW clear, NEW then \in Thens \ {"prove"}, Close(todo, clear, then)
  PROVE  Calm(work')
  BY CloseMoves DEF Calm, Thens, Writing, Deleting

LEMMA ReturnCalm ==
  ASSUME WorkInv, NEW out, Return(out)
  PROVE  Calm(work')
  BY WorkFields DEF WorkInv, Return, Calm, Writing, Deleting

LEMMA PassEndsCalm ==
  ASSUME WorkInv, DeletePassEnds
  PROVE  Calm(work')
  <1>1. CASE FailShardClosed
    BY <1>1, CloseCalm DEF FailShardClosed, Thens
  <1>2. CASE Goto("idle")
    BY <1>2, GotoCalm DEF Writing, Deleting
  <1> QED
    BY <1>1, <1>2 DEF DeletePassEnds

-----------------------------------------------------------------------------
(* What the wire and the receipts say together. *)

LEMMA NoIdentity ==
  ASSUME PoolInv, Identity = 0
  PROVE  pool.uuid = 0 /\ pool.target = 0 /\ pool.seen = 0
  BY DEF Identity, PoolInv

LEMMA CreatesWrite ==
  ASSUME ShardInv, NEW m \in Creates
  PROVE  m \in Writes /\ pool.issued /\ ~pool.rejected /\ Identity = 0 /\ pool.uuid = 0 /\ ~Listed
  BY NoIdentity DEF ShardInv, WriteInv, Creates, Writes

LEMMA PutsListed ==
  ASSUME ShardInv, NEW m \in Writes, m.op # "create"
  PROVE  m.op = "put" /\ Listed /\ pool.issued /\ pool.uuid = fw.id /\ Hash(fw.rules) # Hash(pool.pending)
  BY DEF ShardInv, WriteInv, CloudInv, Writes, Listed

(* Steps that leave the receipt of a write alone. *)
LEMMA Keeps ==
  ASSUME ShardInv, UNCHANGED fw,
         wire' \subseteq wire \cup {m \in wire' : m.op = "delete"},
         DOMAIN pool' = DOMAIN NoPool, pool'.uuid = pool.uuid, pool'.pending = pool.pending,
         pool'.issued = pool.issued, pool'.rejected = pool.rejected,
         pool'.life \in {pool.life, "deleting"},
         \/ pool'.target = pool.target /\ pool'.seen = pool.seen
         \/ Creates = {} /\ pool.life = "deleting",
         DOMAIN work' = DOMAIN Idle, work'.goal \in Goals, work'.pc \notin Writing,
         work'.pc = "close" => work'.then \in Thens,
         work'.pc \in Deleting => pool'.life = "deleting",
         Proving' => ~Listed /\ Creates = {}
  PROVE  ShardInv'
  <1>1. Writes' \subseteq Writes /\ Creates' \subseteq Creates
    BY DEF Writes, Creates
  <1>2. WorkInv' /\ IssuedInv'
    BY DEF WorkInv, IssuedInv, At
  <1>3. CloudInv'
    BY DEF ShardInv, CloudInv
  <1>4. PoolInv'
    BY DEF ShardInv, PoolInv
  <1>5. WriteInv'
    <2>1. ASSUME NEW m \in Writes'
          PROVE  /\ pool'.issued /\ m.id = pool'.uuid /\ m.rules = pool'.pending
                 /\ ~At("reply")'
                 /\ IF m.op = "create" THEN ~pool'.rejected /\ Identity' = 0 /\ ~Listed'
                    ELSE Hash(fw'.rules) # Hash(pool'.pending)
      <3>1. m \in Writes
        BY <1>1, <2>1
      <3>2. ~At("reply")'
        BY DEF At, Writing
      <3>3. m.op = "create" => m \in Creates /\ Identity' = 0 /\ ~Listed'
        <4>1. m.op = "create" => m \in Creates
          BY <3>1 DEF Writes, Creates
        <4>2. m.op = "create" => pool.uuid = 0 /\ pool.target = 0 /\ pool.seen = 0 /\ ~Listed
          BY <3>1, <4>1, CreatesWrite, NoIdentity DEF ShardInv
        <4> QED
          BY <4>1, <4>2 DEF Identity, Listed
      <3> QED
        BY <3>1, <3>2, <3>3 DEF ShardInv, WriteInv
    <2>2. \A m1, m2 \in Writes' : m1 = m2
      BY <1>1 DEF ShardInv, WriteInv
    <2> QED
      BY <2>1, <2>2 DEF WriteInv
  <1>6. OrphanInv'
    BY <1>1 DEF ShardInv, OrphanInv, Listed
  <1> QED
    BY <1>2, <1>3, <1>4, <1>5, <1>6 DEF ShardInv

(* Steps after which no write can take effect. *)
LEMMA Settles ==
  ASSUME ShardInv, UNCHANGED fw, wire' \subseteq wire, Writes' = {},
         DOMAIN pool' = DOMAIN NoPool, pool'.uuid \in {0, pool.uuid, fw.id},
         pool'.rejected => pool'.issued, pool'.life = pool.life,
         \/ pool'.target = pool.target /\ pool'.seen = pool.seen
         \/ pool'.target = 0 /\ pool'.seen = 0
         \/ pool.life = "deleting",
         DOMAIN work' = DOMAIN Idle, work'.goal \in Goals, work'.pc \notin Writing,
         work'.pc = "close" => work'.then \in Thens,
         work'.pc \in Deleting => pool.life = "deleting",
         Proving' => ~Listed
  PROVE  ShardInv'
  <1>1. Creates' = {}
    BY DEF Writes, Creates
  <1>2. WorkInv' /\ IssuedInv'
    BY DEF WorkInv, IssuedInv, At
  <1>3. CloudInv'
    BY DEF ShardInv, CloudInv
  <1>4. PoolInv'
    BY DEF ShardInv, PoolInv, CloudInv
  <1>5. WriteInv'
    BY DEF WriteInv
  <1>6. OrphanInv'
    BY <1>1 DEF ShardInv, OrphanInv, Listed
  <1> QED
    BY <1>2, <1>3, <1>4, <1>5, <1>6 DEF ShardInv

(* Steps of the others on the NodePool. *)
LEMMA Outside ==
  ASSUME ShardInv, UNCHANGED <<fw, wire, work>>,
         DOMAIN pool' = DOMAIN NoPool, pool'.uuid = pool.uuid, pool'.pending = pool.pending,
         pool'.issued = pool.issued, pool'.rejected = pool.rejected,
         pool'.target = pool.target, pool'.seen = pool.seen,
         pool'.life = pool.life \/ pool'.life = "deleting"
  PROVE  ShardInv'
  <1>1. Writes' = Writes /\ Creates' = Creates /\ Identity' = Identity /\ Listed' = Listed
    BY DEF Writes, Creates, Identity, Listed
  <1>2. Request' = Request /\ (Proving' <=> Proving)
    BY DEF Request, Proving, At
  <1>3. WorkInv' /\ CloudInv' /\ PoolInv'
    BY DEF ShardInv, WorkInv, CloudInv, PoolInv, At
  <1>4. IssuedInv'
    BY <1>1 DEF ShardInv, IssuedInv
  <1>5. WriteInv'
    BY <1>1, <1>2 DEF ShardInv, WriteInv, At
  <1>6. OrphanInv'
    BY <1>1, <1>2 DEF ShardInv, OrphanInv
  <1> QED
    BY <1>3, <1>4, <1>5, <1>6 DEF ShardInv

(* Steps that touch only Services, children and statuses. *)
LEMMA KubeMoves ==
  ASSUME ShardInv, UNCHANGED <<pool, fw, wire, work>>
  PROVE  ShardInv'
  BY Outside DEF ShardInv, PoolInv

(* Steps of the worker that leave the NodePool and the cloud alone. *)
LEMMA WorkMoves ==
  ASSUME ShardInv, UNCHANGED <<pool, fw>>, wire' \subseteq wire, Calm(work')
  PROVE  ShardInv'
  <1>1. ~Proving'
    BY DEF Calm, Proving, At
  <1>2. work'.pc = "close" => work'.then \in Thens
    BY DEF Calm
  <1>3. work'.pc \notin Writing /\ work'.pc \notin Deleting
    BY DEF Calm
  <1>4. wire' \subseteq wire \cup {m \in wire' : m.op = "delete"}
    OBVIOUS
  <1> QED
    BY <1>1, <1>2, <1>3, <1>4, Keeps DEF Calm, ShardInv, PoolInv

(* ... that write the NodePool but not the receipt of a write. *)
LEMMA NoteMoves ==
  ASSUME ShardInv, UNCHANGED fw, wire' \subseteq wire, Calm(work'),
         DOMAIN pool' = DOMAIN NoPool, pool'.uuid = pool.uuid, pool'.pending = pool.pending,
         pool'.issued = pool.issued, pool'.rejected = pool.rejected,
         pool'.life = pool.life, pool'.target = pool.target, pool'.seen = pool.seen
  PROVE  ShardInv'
  <1>1. ~Proving'
    BY DEF Calm, Proving, At
  <1>2. work'.pc = "close" => work'.then \in Thens
    BY DEF Calm
  <1>3. work'.pc \notin Writing /\ work'.pc \notin Deleting
    BY DEF Calm
  <1>4. wire' \subseteq wire \cup {m \in wire' : m.op = "delete"}
    OBVIOUS
  <1> QED
    BY <1>1, <1>2, <1>3, <1>4, Keeps DEF Calm

(* ... that settle the receipt of a write. *)
LEMMA ReceiptSettles ==
  ASSUME ShardInv, UNCHANGED fw, wire' \subseteq wire, Writes' = {}, Calm(work'),
         DOMAIN pool' = DOMAIN NoPool, pool'.uuid \in {0, pool.uuid, fw.id},
         pool'.rejected => pool'.issued, pool'.life = pool.life,
         \/ pool'.target = pool.target /\ pool'.seen = pool.seen
         \/ pool'.target = 0 /\ pool'.seen = 0
         \/ pool.life = "deleting"
  PROVE  ShardInv'
  <1>1. ~Proving'
    BY DEF Calm, Proving, At
  <1>2. work'.pc = "close" => work'.then \in Thens
    BY DEF Calm
  <1>3. work'.pc \notin Writing /\ work'.pc \notin Deleting
    BY DEF Calm
  <1> QED
    BY <1>1, <1>2, <1>3, Settles DEF Calm

-----------------------------------------------------------------------------
(* reconcileShardFirewallPolicy *)

LEMMA QuietPolicyStep ==
  ASSUME ShardInv, NothingDesired \/ PolicyRefused \/ CreateAmbiguous \/ UpdateSucceeds \/ MutationFails
  PROVE  ShardInv'
  <1>1. UNCHANGED <<pool, fw, wire>>
    BY DEF NothingDesired, PolicyRefused, CreateAmbiguous, UpdateSucceeds, MutationFails
  <1>2. PICK out : Return(out)
    BY DEF NothingDesired, PolicyRefused, CreateAmbiguous, UpdateSucceeds, MutationFails
  <1> QED
    BY <1>1, <1>2, ReturnCalm, WorkMoves DEF ShardInv

LEMMA ClearedStep ==
  ASSUME ShardInv, PolicyIsReady \/ PutUnresolved \/ UpdateAmbiguous
  PROVE  ShardInv'
  <1>1. UNCHANGED <<fw, wire>> /\ pool' = Cleared(pool)
    BY Zenon DEF PolicyIsReady, PutUnresolved, UpdateAmbiguous
  <1>2. PICK out : Return(out)
    BY Zenon DEF PolicyIsReady, PutUnresolved, UpdateAmbiguous
  <1>3. Calm(work')
    BY <1>2, ReturnCalm DEF ShardInv
  <1> QED
    BY <1>1, <1>3, NoteMoves, PoolFields DEF Cleared, ShardInv, PoolInv

(* Without a firewall no PUT can take effect; without an identity either. *)
LEMMA NoWrites ==
  ASSUME ShardInv, Creates = {}, ~Listed \/ pool.uuid # fw.id
  PROVE  Writes = {}
  BY PutsListed DEF Creates, Writes, Listed

LEMMA NoCreates ==
  ASSUME ShardInv, Listed \/ ~pool.issued \/ pool.rejected \/ Identity # 0 \/ pool.uuid # 0
  PROVE  Creates = {}
  BY CreatesWrite

LEMMA NotIssued ==
  ASSUME ShardInv, ~pool.issued
  PROVE  Writes = {}
  BY DEF ShardInv, WriteInv

LEMMA SameWrites ==
  ASSUME UNCHANGED <<fw, wire>>
  PROVE  Writes' = Writes
  BY DEF Writes

LEMMA ObserveAppliedAbsenceStep ==
  ASSUME ShardInv, ObserveAppliedAbsence
  PROVE  ShardInv'
  <1>1. Calm(work')
    BY ReturnCalm DEF ShardInv, ObserveAppliedAbsence
  <1>2. Writes' = {}
    BY NoCreates, NoWrites, SameWrites DEF ObserveAppliedAbsence
  <1>3. CASE pool' = Forgotten(pool)
    <2>1. /\ DOMAIN pool' = DOMAIN NoPool /\ pool'.uuid = 0 /\ pool'.life = pool.life
          /\ pool'.target = 0 /\ pool'.seen = 0 /\ pool'.rejected = FALSE
      BY <1>3, PoolFields DEF Forgotten, NoPool
    <2> QED
      BY <1>1, <1>2, <2>1, ReceiptSettles DEF ObserveAppliedAbsence
  <1>4. CASE pool' = [pool EXCEPT !.absent = @ + 1]
    BY <1>1, <1>4, NoteMoves, PoolFields DEF ObserveAppliedAbsence, ShardInv, PoolInv
  <1> QED
    BY <1>3, <1>4 DEF ObserveAppliedAbsence

LEMMA PromotePendingStep ==
  ASSUME ShardInv, PromotePending
  PROVE  ShardInv'
  <1>1. UNCHANGED <<fw, wire>> /\ \E l, out : pool' = [Resolved(pool) EXCEPT !.uuid = fw.id, !.applied = l]
                                              /\ Return(out)
    BY Zenon DEF PromotePending
  <1>2. Calm(work')
    BY <1>1, ReturnCalm DEF ShardInv
  <1>3. Listed /\ (pool.uuid # fw.id \/ Hash(fw.rules) = Hash(pool.pending))
    BY DEF PromotePending, Visible, Adoptable, Current, Listed
  <1>4. Writes' = {}
    BY <1>1, <1>3, NoCreates, PutsListed, SameWrites DEF Creates, Writes
  <1>5. /\ DOMAIN pool' = DOMAIN NoPool /\ pool'.uuid = fw.id /\ pool'.life = pool.life
        /\ pool'.target = pool.target /\ pool'.seen = pool.seen /\ pool'.rejected = FALSE
    BY <1>1, PoolFields DEF Resolved, ShardInv, PoolInv
  <1> QED
    BY <1>1, <1>2, <1>4, <1>5, ReceiptSettles

LEMMA StageStep ==
  ASSUME ShardInv, StageCreate \/ StageUpdate
  PROVE  ShardInv'
  <1>1. UNCHANGED <<fw, wire>> /\ ~pool.issued /\ \E out : Return(out)
    BY Zenon DEF StageCreate, StageUpdate
  <1>2. Calm(work')
    BY <1>1, ReturnCalm DEF ShardInv
  <1>3. Writes' = {}
    BY <1>1, NotIssued, SameWrites
  <1>4. /\ DOMAIN pool' = DOMAIN NoPool /\ pool'.uuid = pool.uuid /\ pool'.life = pool.life
        /\ pool'.target = pool.target /\ pool'.seen = pool.seen
        /\ pool'.rejected = pool.rejected /\ pool'.issued = pool.issued
    <2>1. CASE StageCreate
      BY <2>1, PoolFields DEF StageCreate, ShardInv, PoolInv
    <2>2. CASE StageUpdate
      BY <2>2, PoolFields DEF StageUpdate, Cleared, ShardInv, PoolInv
    <2> QED
      BY <2>1, <2>2
  <1> QED
    BY <1>1, <1>2, <1>3, <1>4, ReceiptSettles DEF ShardInv, PoolInv

LEMMA RetireRejectedCreateStep ==
  ASSUME ShardInv, RetireRejectedCreate
  PROVE  ShardInv'
  <1>1. Calm(work')
    BY ReturnCalm DEF ShardInv, RetireRejectedCreate
  <1>2. Writes' = {}
    BY NoCreates, NoWrites, SameWrites DEF RetireRejectedCreate, Rejected, Absent
  <1>3. /\ DOMAIN pool' = DOMAIN NoPool /\ pool'.uuid = pool.uuid /\ pool'.life = pool.life
        /\ pool'.target = pool.target /\ pool'.seen = pool.seen
        /\ pool'.rejected => pool'.issued
    BY PoolFields DEF RetireRejectedCreate, Rejected, ShardInv, PoolInv
  <1> QED
    BY <1>1, <1>2, <1>3, ReceiptSettles DEF RetireRejectedCreate

(* The receipt is issued: it stands for the one write that may follow. *)
LEMMA IssueMoves ==
  ASSUME ShardInv, NEW op \in {"create", "put"}, Issue(op), pool.life = "live",
         ~pool.issued, pool.pending = Desired,
         IF op = "create" THEN pool.uuid = 0 /\ ~Listed
         ELSE pool.uuid # 0 /\ Hash(fw.rules) # Hash(pool.pending)
  PROVE  ShardInv'
  <1>1. /\ DOMAIN pool' = DOMAIN NoPool /\ pool'.uuid = pool.uuid /\ pool'.pending = pool.pending
        /\ pool'.issued = TRUE /\ pool'.rejected = pool.rejected /\ pool'.life = pool.life
        /\ pool'.target = pool.target /\ pool'.seen = pool.seen
    BY PoolFields DEF Issue, ShardInv, PoolInv
  <1>2. /\ DOMAIN work' = DOMAIN Idle /\ work'.pc = "authorize" /\ work'.op = op
        /\ work'.des = Desired /\ work'.goal = work.goal
    BY WorkFields DEF Issue, ShardInv, WorkInv
  <1>3. UNCHANGED <<fw, wire>>
    BY DEF Issue
  <1>4. Writes' = {} /\ Creates' = {}
    BY <1>3, NotIssued, SameWrites DEF Writes, Creates
  <1>5. WorkInv' /\ CloudInv'
    BY <1>2, <1>3 DEF ShardInv, WorkInv, CloudInv, At
  <1>6. PoolInv'
    BY <1>1, <1>2, <1>3 DEF ShardInv, PoolInv, Deleting
  <1>7. IssuedInv'
    <2>1. pool'.target = 0 /\ pool'.seen = 0 /\ ~pool'.rejected
      BY <1>1 DEF ShardInv, PoolInv
    <2>2. op = "create" => Identity' = 0 /\ ~Listed'
      BY <1>1, <1>3, <2>1 DEF Identity, Listed
    <2> QED
      BY <1>1, <1>2, <1>3, <1>4, <2>1, <2>2 DEF IssuedInv
  <1>8. WriteInv' /\ OrphanInv'
    BY <1>1, <1>2, <1>4 DEF WriteInv, OrphanInv, Proving, At
  <1> QED
    BY <1>5, <1>6, <1>7, <1>8 DEF ShardInv

LEMMA IssueStep ==
  ASSUME ShardInv, IssueCreate \/ IssueUpdate
  PROVE  ShardInv'
  <1>1. CASE IssueCreate
    BY <1>1, IssueMoves DEF IssueCreate, Absent, Anchored, Live
  <1>2. CASE IssueUpdate
    <2>1. pool.uuid # 0 /\ Live /\ Listed /\ pool.uuid = fw.id
      BY <1>2 DEF IssueUpdate, Behind, Applied, Current, Anchored
    <2>2. Pending
      BY <1>2 DEF IssueUpdate, Behind, Applied, Current, Anchored, Reconciling, Pending
    <2>3. Hash(fw.rules) # Hash(pool.pending)
      BY <1>2, <2>2 DEF IssueUpdate, Behind, Applied, Visible
    <2> QED
      BY <1>2, <2>1, <2>3, IssueMoves DEF IssueUpdate, Live
  <1> QED
    BY <1>1, <1>2

LEMMA AuthorizeMutationStep ==
  ASSUME ShardInv, AuthorizeMutation
  PROVE  ShardInv'
  <1>1. /\ work'.pc = "send" /\ DOMAIN work' = DOMAIN Idle /\ work'.goal \in Goals
        /\ work'.des = work.des /\ work'.op = work.op
    BY GotoMoves DEF AuthorizeMutation, ShardInv
  <1>2. UNCHANGED <<pool, fw, wire>> /\ work.pc = "authorize"
    BY DEF AuthorizeMutation, At
  <1>3. Writes' = Writes /\ Creates' = Creates /\ Identity' = Identity /\ Listed' = Listed
    BY <1>2 DEF Writes, Creates, Identity, Listed
  <1>4. WorkInv' /\ CloudInv' /\ PoolInv'
    BY <1>1, <1>2 DEF ShardInv, WorkInv, CloudInv, PoolInv, At, Deleting
  <1>5. IssuedInv'
    BY <1>1, <1>2, <1>3 DEF ShardInv, IssuedInv, Writing
  <1>6. WriteInv' /\ OrphanInv'
    BY <1>1, <1>2, <1>3 DEF ShardInv, IssuedInv, WriteInv, OrphanInv, Proving, At, Writing
  <1> QED
    BY <1>4, <1>5, <1>6 DEF ShardInv

LEMMA PromotedFields ==
  ASSUME PoolInv
  PROVE  LET p == Promoted(pool) IN
         /\ DOMAIN p = DOMAIN NoPool /\ p.uuid = fw.id /\ p.life = pool.life
         /\ p.target = pool.target /\ p.seen = pool.seen /\ p.rejected = FALSE
  BY PoolFields DEF Promoted, Resolved, PoolInv

LEMMA RejectUndispatchedStep ==
  ASSUME ShardInv, RejectUndispatched
  PROVE  ShardInv'
  <1>1. UNCHANGED <<fw, wire>> /\ work.pc = "authorize" /\ \E out : Return(out)
    BY Zenon DEF RejectUndispatched, At
  <1>2. Calm(work')
    BY <1>1, ReturnCalm DEF ShardInv
  <1>3. Writes' = {} /\ ~pool.rejected
    BY <1>1, SameWrites DEF ShardInv, IssuedInv, Writing
  <1>4. CASE pool' = Promoted(pool)
    BY <1>1, <1>2, <1>3, <1>4, PromotedFields, ReceiptSettles, Zenon DEF ShardInv
  <1>5. CASE pool' = [pool EXCEPT !.issued = FALSE]
    <2>1. /\ DOMAIN pool' = DOMAIN NoPool /\ pool'.uuid = pool.uuid /\ pool'.life = pool.life
          /\ pool'.target = pool.target /\ pool'.seen = pool.seen /\ pool'.rejected = pool.rejected
      BY <1>5, PoolFields DEF ShardInv, PoolInv
    <2> QED
      BY <1>1, <1>2, <1>3, <2>1, ReceiptSettles
  <1> QED
    BY <1>4, <1>5, Zenon DEF RejectUndispatched

LEMMA SendMutationStep ==
  ASSUME ShardInv, SendMutation
  PROVE  ShardInv'
  <1> DEFINE r == Request'
  <1>1. /\ DOMAIN work' = DOMAIN Idle /\ work'.pc = "reply" /\ work'.op = work.op
        /\ work'.des = work.des /\ work'.goal = work.goal
    BY WorkFields DEF SendMutation, ShardInv, WorkInv
  <1>2. r.op = work.op /\ r.id = pool.uuid /\ r.rules = work.des
    BY <1>1 DEF Request, SendMutation
  <1>3. wire' = wire \cup {r}
    BY <1>1, WorkFields DEF SendMutation, Request, ShardInv, WorkInv
  <1>4. UNCHANGED <<pool, fw>> /\ work.pc = "send"
    BY DEF SendMutation, At
  <1>5. /\ pool.life # "none" /\ pool.issued /\ ~pool.rejected /\ pool.pending = work.des
        /\ work.op \in {"create", "put"} /\ Writes = {}
        /\ IF work.op = "create" THEN pool.uuid = 0 /\ Identity = 0 /\ ~Listed
           ELSE pool.uuid # 0 /\ (fw.id = pool.uuid => Hash(fw.rules) # Hash(pool.pending))
    BY <1>4 DEF ShardInv, IssuedInv, Writing
  <1> HIDE DEF r
  <1>6. Writes' \subseteq {r} /\ (work.op = "put" /\ Writes' # {} => fw.id = pool.uuid)
    BY <1>2, <1>3, <1>4, <1>5 DEF Writes
  <1>7. WorkInv'
    BY <1>1 DEF ShardInv, WorkInv, At
  <1>8. CloudInv'
    BY <1>2, <1>3, <1>4, <1>5 DEF ShardInv, CloudInv, PoolInv
  <1>9. PoolInv'
    BY <1>1, <1>4 DEF ShardInv, PoolInv, Deleting
  <1>10. IssuedInv'
    BY <1>1, <1>4, <1>5 DEF IssuedInv
  <1>11. WriteInv'
    <2>1. Identity' = Identity /\ Listed' = Listed
      BY <1>4 DEF Identity, Listed
    <2>2. ASSUME NEW m \in Writes'
          PROVE  /\ pool'.issued /\ m.id = pool'.uuid /\ m.rules = pool'.pending /\ m = Request'
                 /\ IF m.op = "create" THEN ~pool'.rejected /\ Identity' = 0 /\ ~Listed'
                    ELSE Hash(fw'.rules) # Hash(pool'.pending)
      BY <1>2, <1>4, <1>5, <1>6, <2>1 DEF r
    <2> QED
      BY <2>2 DEF WriteInv
  <1>12. OrphanInv'
    BY <1>1, <1>4, <1>5 DEF OrphanInv, Proving, At
  <1> QED
    BY <1>7, <1>8, <1>9, <1>10, <1>11, <1>12 DEF ShardInv

(* While the worker waits for its reply, the only write is its request. *)
LEMMA OwnRequest ==
  ASSUME ShardInv, At("reply")
  PROVE  Writes \subseteq {Request} /\ pool.issued /\ ~pool.rejected /\ pool.pending = work.des
  BY DEF ShardInv, WriteInv, IssuedInv, At, Writing

LEMMA RequestGone ==
  ASSUME ShardInv, At("reply"), UNCHANGED fw, wire' \subseteq wire, Request \notin wire'
  PROVE  Writes' = {}
  BY OwnRequest DEF Writes

LEMMA CreateSucceedsStep ==
  ASSUME ShardInv, CreateSucceeds
  PROVE  ShardInv'
  <1>1. Calm(work')
    BY ReturnCalm DEF ShardInv, CreateSucceeds
  <1>2. Writes' = {}
    BY RequestGone DEF CreateSucceeds
  <1> QED
    BY <1>1, <1>2, PromotedFields, ReceiptSettles, Zenon DEF CreateSucceeds, ShardInv

LEMMA MutationUnansweredStep ==
  ASSUME ShardInv, MutationUnanswered
  PROVE  ShardInv'
  <1>1. UNCHANGED fw /\ wire' \subseteq wire /\ At("reply") /\ \E out : Return(out)
    BY DEF MutationUnanswered
  <1>2. Calm(work')
    BY <1>1, ReturnCalm DEF ShardInv
  <1>3. CASE Readback
    <2>1. Writes = {}
      <3>1. Listed /\ Hash(fw.rules) = Hash(pool.pending)
        BY <1>1, <1>3, OwnRequest DEF Readback
      <3> QED
        BY <3>1, PutsListed, NoCreates DEF Creates, Writes
    <2>2. Writes' = {}
      BY <1>1, <2>1 DEF Writes
    <2> QED
      BY <1>1, <1>2, <1>3, <2>2, PromotedFields, ReceiptSettles, Zenon DEF MutationUnanswered, ShardInv
  <1>4. CASE ~Readback
    BY <1>1, <1>2, <1>4, WorkMoves DEF MutationUnanswered
  <1> QED
    BY <1>3, <1>4

LEMMA MutationNotSentStep ==
  ASSUME ShardInv, MutationNotSent \/ MarkCreateRejected
  PROVE  ShardInv'
  <1>1. UNCHANGED fw /\ wire' = wire \ {Request} /\ At("reply") /\ \E out : Return(out)
    BY Zenon DEF MutationNotSent, MarkCreateRejected
  <1>2. Calm(work')
    BY <1>1, ReturnCalm DEF ShardInv
  <1>3. Writes' = {} /\ pool.issued /\ ~pool.rejected
    BY <1>1, RequestGone, OwnRequest
  <1>4. /\ DOMAIN pool' = DOMAIN NoPool /\ pool'.uuid = pool.uuid /\ pool'.life = pool.life
        /\ pool'.target = pool.target /\ pool'.seen = pool.seen /\ (pool'.rejected => pool'.issued)
    <2>1. CASE MutationNotSent
      BY <1>3, <2>1, PoolFields DEF MutationNotSent, ShardInv, PoolInv
    <2>2. CASE MarkCreateRejected
      BY <1>3, <2>2, PoolFields DEF MarkCreateRejected, ShardInv, PoolInv
    <2> QED
      BY <2>1, <2>2
  <1> QED
    BY <1>1, <1>2, <1>3, <1>4, ReceiptSettles

-----------------------------------------------------------------------------
(* deleteAggregateShardFirewall *)

LEMMA InDelete ==
  ASSUME ShardInv, work.pc \in Deleting
  PROVE  pool.life = "deleting"
  BY DEF ShardInv, PoolInv

LEMMA QuietDeleteStep ==
  ASSUME ShardInv, DeleteRefused \/ DeleteAnswered
  PROVE  ShardInv'
  <1>1. UNCHANGED <<pool, fw, wire>> /\ DeletePassEnds
    BY DEF DeleteRefused, DeleteAnswered
  <1> QED
    BY <1>1, PassEndsCalm, WorkMoves DEF ShardInv

(* The last absence is observed: the receipts go, and the proof begins. *)
LEMMA DeleteProvedMoves ==
  ASSUME WorkInv, DeleteProved
  PROVE  /\ DOMAIN work' = DOMAIN Idle /\ work'.goal \in Goals
         /\ (work'.pc = "close" /\ work'.then = "prove") \/ work'.pc = "prove"
  <1>1. CASE work.goal = "drain"
    <2>1. PICK live : Close(live, live, "prove")
      BY <1>1 DEF DeleteProved
    <2> QED
      BY <2>1, CloseMoves
  <1>2. CASE Goto("prove")
    BY <1>2, GotoMoves
  <1> QED
    BY <1>1, <1>2 DEF DeleteProved

LEMMA ObserveDeletedStep ==
  ASSUME ShardInv, ObserveDeleted
  PROVE  ShardInv'
  <1>1. UNCHANGED <<fw, wire>> /\ ~Listed /\ pool.life = "deleting"
    BY InDelete DEF ObserveDeleted, At, Deleting
  <1>2. Creates = {}
    BY CreatesWrite DEF ObserveDeleted, CreateOutstanding
  <1>3. Writes' = {}
    BY <1>1, <1>2, NoWrites, SameWrites
  <1>4. CASE pool' = Forgotten(pool) /\ DeleteProved
    <2>1. /\ DOMAIN pool' = DOMAIN NoPool /\ pool'.uuid = 0 /\ pool'.life = pool.life
          /\ pool'.target = 0 /\ pool'.seen = 0 /\ pool'.rejected = FALSE
      BY <1>4, PoolFields DEF Forgotten, NoPool
    <2>2. /\ DOMAIN work' = DOMAIN Idle /\ work'.goal \in Goals
          /\ (work'.pc = "close" /\ work'.then = "prove") \/ work'.pc = "prove"
      BY <1>4, DeleteProvedMoves DEF ShardInv
    <2>3. work'.pc \notin Writing /\ work'.pc \notin Deleting /\ (work'.pc = "close" => work'.then \in Thens)
      BY <2>2 DEF Writing, Deleting, Thens
    <2> QED
      BY <1>1, <1>3, <2>1, <2>2, <2>3, Settles
  <1>5. CASE pool' = [pool EXCEPT !.target = Identity, !.gone = @ + 1] /\ DeletePassEnds
    <2>1. /\ DOMAIN pool' = DOMAIN NoPool /\ pool'.uuid = pool.uuid /\ pool'.life = pool.life
          /\ (pool'.rejected => pool'.issued)
      BY <1>5, PoolFields DEF ShardInv, PoolInv
    <2>2. Calm(work')
      BY <1>5, PassEndsCalm DEF ShardInv
    <2> QED
      BY <1>1, <1>3, <2>1, <2>2, ReceiptSettles
  <1> QED
    BY <1>4, <1>5 DEF ObserveDeleted

LEMMA RecordCleanupSeenStep ==
  ASSUME ShardInv, RecordCleanupSeen
  PROVE  ShardInv'
  <1>1. UNCHANGED <<fw, wire>> /\ Listed /\ pool.life = "deleting"
    BY InDelete DEF RecordCleanupSeen, At, Deleting
  <1>2. pool.uuid = 0
    BY NoIdentity DEF RecordCleanupSeen, ShardInv
  <1>3. Writes' = {}
    BY <1>1, <1>2, NoCreates, NoWrites, SameWrites DEF Listed
  <1>4. /\ DOMAIN pool' = DOMAIN NoPool /\ pool'.uuid = pool.uuid /\ pool'.life = pool.life
        /\ (pool'.rejected => pool'.issued)
    BY PoolFields DEF RecordCleanupSeen, ShardInv, PoolInv
  <1>5. Calm(work')
    BY PassEndsCalm DEF ShardInv, RecordCleanupSeen
  <1> QED
    BY <1>1, <1>3, <1>4, <1>5, ReceiptSettles

LEMMA AwaitDeleteStep ==
  ASSUME ShardInv, AwaitDelete
  PROVE  ShardInv'
  <1>1. Calm(work')
    BY PassEndsCalm DEF ShardInv, AwaitDelete
  <1> QED
    BY <1>1, NoteMoves, PoolFields DEF AwaitDelete, ShardInv, PoolInv

LEMMA IssueDeleteStep ==
  ASSUME ShardInv, IssueDelete
  PROVE  ShardInv'
  <1>1. UNCHANGED <<fw, wire>> /\ Listed /\ pool.life = "deleting"
    BY InDelete DEF IssueDelete, At, Deleting
  <1>2. Creates = {}
    BY <1>1, NoCreates
  <1>3. /\ DOMAIN pool' = DOMAIN NoPool /\ pool'.uuid = pool.uuid /\ pool'.pending = pool.pending
        /\ pool'.issued = pool.issued /\ pool'.rejected = pool.rejected /\ pool'.life = pool.life
    BY PoolFields DEF IssueDelete, ShardInv, PoolInv
  <1>4. DOMAIN work' = DOMAIN Idle /\ work'.pc = "authorizeDelete" /\ work'.goal = work.goal
    BY WorkFields DEF IssueDelete, ShardInv, WorkInv
  <1>5. work'.pc \notin Writing /\ ~Proving' /\ work'.pc # "close" /\ work'.goal \in Goals
    BY <1>4 DEF Writing, Proving, At, ShardInv, WorkInv
  <1>6. wire' \subseteq wire \cup {m \in wire' : m.op = "delete"}
    BY <1>1
  <1> QED
    BY <1>1, <1>2, <1>3, <1>4, <1>5, <1>6, Keeps

LEMMA AuthorizeDeleteStep ==
  ASSUME ShardInv, AuthorizeDelete
  PROVE  ShardInv'
  <1>1. UNCHANGED <<fw, wire>> /\ pool.life = "deleting"
    BY InDelete DEF AuthorizeDelete, At, Deleting
  <1>2. CASE Goto("sendDelete") /\ UNCHANGED pool
    <2>1. work'.pc = "sendDelete" /\ DOMAIN work' = DOMAIN Idle /\ work'.goal \in Goals
      BY <1>2, GotoMoves DEF ShardInv
    <2>2. work'.pc \notin Writing /\ ~Proving' /\ work'.pc # "close"
      BY <2>1 DEF Writing, Proving, At
    <2>3. wire' \subseteq wire \cup {m \in wire' : m.op = "delete"}
      BY <1>1
    <2> QED
      BY <1>1, <1>2, <2>1, <2>2, <2>3, Keeps DEF ShardInv, PoolInv
  <1>3. CASE DeletePassEnds /\ pool' = [pool EXCEPT !.deleting = FALSE]
    <2>1. Calm(work')
      BY <1>3, PassEndsCalm DEF ShardInv
    <2> QED
      BY <1>1, <1>3, <2>1, NoteMoves, PoolFields DEF ShardInv, PoolInv
  <1> QED
    BY <1>2, <1>3 DEF AuthorizeDelete

LEMMA SendDeleteStep ==
  ASSUME ShardInv, SendDelete
  PROVE  ShardInv'
  <1>1. UNCHANGED <<pool, fw>> /\ pool.life = "deleting"
    BY InDelete DEF SendDelete, At, Deleting
  <1>2. work'.pc = "deleteReply" /\ DOMAIN work' = DOMAIN Idle /\ work'.goal \in Goals
    BY GotoMoves DEF ShardInv, SendDelete
  <1>3. work'.pc \notin Writing /\ ~Proving' /\ work'.pc # "close"
    BY <1>2 DEF Writing, Proving, At
  <1>4. wire' \subseteq wire \cup {m \in wire' : m.op = "delete"}
    BY DEF SendDelete, DeleteRequest
  <1> QED
    BY <1>1, <1>2, <1>3, <1>4, Keeps DEF ShardInv, PoolInv

LEMMA DeleteUnansweredStep ==
  ASSUME ShardInv, DeleteUnanswered
  PROVE  ShardInv'
  <1>1. UNCHANGED fw /\ wire' \subseteq wire
    BY DEF DeleteUnanswered
  <1>2. Calm(work')
    BY PassEndsCalm DEF ShardInv, DeleteUnanswered
  <1>3. CASE UNCHANGED pool
    BY <1>1, <1>2, <1>3, WorkMoves
  <1>4. CASE pool' = [pool EXCEPT !.deleting = FALSE]
    BY <1>1, <1>2, <1>4, NoteMoves, PoolFields DEF ShardInv, PoolInv
  <1> QED
    BY <1>3, <1>4 DEF DeleteUnanswered

-----------------------------------------------------------------------------
(* The passes of sync. *)

LEMMA BeginFields ==
  ASSUME NEW s, NEW goal, NEW pc
  PROVE  LET b == Begin(s, goal, pc) IN
         DOMAIN b = DOMAIN Idle /\ b.pc = pc /\ b.goal = goal /\ b.then = "idle"
  BY DEF Begin, Idle

(* A pass that begins by closing datapaths. *)
LEMMA BeginCalm ==
  ASSUME NEW s, NEW goal \in Goals, NEW todo, NEW clear, NEW then \in Thens \ {"prove"}
  PROVE  /\ Calm([Begin(s, goal, "close") EXCEPT !.todo = todo])
         /\ Calm([Begin(s, goal, "close") EXCEPT !.todo = todo, !.then = then])
         /\ Calm([Begin(s, goal, "close") EXCEPT !.todo = todo, !.clear = clear, !.then = then])
         /\ Calm(Begin(s, goal, "pool"))
  <1> DEFINE b == Begin(s, goal, "close")
  <1>1. DOMAIN b = DOMAIN Idle /\ b.pc = "close" /\ b.goal = goal /\ b.then = "idle"
    BY BeginFields
  <1>2. Calm(Begin(s, goal, "pool"))
    BY BeginFields DEF Calm, Writing, Deleting
  <1> HIDE DEF b
  <1>3. Calm([b EXCEPT !.todo = todo])
    BY <1>1, WorkFields DEF Calm, Writing, Deleting, Thens
  <1>4. Calm([b EXCEPT !.todo = todo, !.then = then])
    BY <1>1, WorkFields DEF Calm, Writing, Deleting, Thens
  <1>5. Calm([b EXCEPT !.todo = todo, !.clear = clear, !.then = then])
    BY <1>1, WorkFields DEF Calm, Writing, Deleting, Thens
  <1> QED
    BY <1>2, <1>3, <1>4, <1>5 DEF b

LEMMA SyncStep ==
  ASSUME ShardInv, NEW s \in Services, Sync(s)
  PROVE  ShardInv'
  <1>0. /\ "serve" \in Goals /\ "restage" \in Goals /\ "drain" \in Goals
        /\ "cleanup" \in Goals /\ "quarantine" \in Goals
        /\ "child" \in Thens \ {"prove"} /\ "owner" \in Thens \ {"prove"}
        /\ "drop" \in Thens \ {"prove"}
    BY DEF Goals, Thens
  <1>1. CASE SyncMetadata(s)
    BY <1>1, KubeMoves DEF SyncMetadata
  <1>2. CASE SyncRestage(s)
    <2>1. Calm(work')
      BY <1>2, <1>0, BeginCalm, Zenon DEF SyncRestage, WithdrawAll
    <2> QED
      BY <1>2, <2>1, WorkMoves DEF SyncRestage
  <1>3. CASE SyncDrain(s)
    <2>1. CASE pool.vms
      <3>1. Calm(work')
        BY <1>3, <2>1, <1>0, BeginCalm, Zenon DEF SyncDrain
      <3> QED
        BY <1>3, <3>1, WorkMoves DEF SyncDrain
    <2>2. CASE ~pool.vms
      <3>1. work' = Begin(s, "drain", "delete") /\ pool.life = "deleting" /\ UNCHANGED <<pool, fw, wire>>
        BY <1>3, <2>2 DEF SyncDrain
      <3>2. DOMAIN work' = DOMAIN Idle /\ work'.pc = "delete" /\ work'.goal = "drain"
        BY <3>1, BeginFields
      <3>3. work'.pc \notin Writing /\ ~Proving' /\ work'.pc # "close" /\ work'.goal \in Goals
        BY <3>2 DEF Writing, Proving, At, Goals
      <3>4. wire' \subseteq wire \cup {m \in wire' : m.op = "delete"}
        BY <3>1
      <3> QED
        BY <3>1, <3>2, <3>3, <3>4, Keeps DEF ShardInv, PoolInv
    <2> QED
      BY <2>1, <2>2
  <1>4. CASE SyncServe(s)
    <2>1. Calm(work')
      BY <1>4, <1>0, BeginCalm, Zenon DEF SyncServe, WithdrawAll
    <2> QED
      BY <1>4, <2>1, WorkMoves DEF SyncServe
  <1>5. CASE SyncCleanup(s)
    <2>1. Calm(work')
      BY <1>5, <1>0, BeginCalm, Zenon DEF SyncCleanup
    <2> QED
      BY <1>5, <2>1, WorkMoves DEF SyncCleanup
  <1>6. CASE SyncQuarantine(s)
    <2>1. Calm(work')
      BY <1>6, <1>0, BeginCalm, Zenon DEF SyncQuarantine
    <2> QED
      BY <1>6, <2>1, WorkMoves DEF SyncQuarantine
  <1> QED
    BY <1>1, <1>2, <1>3, <1>4, <1>5, <1>6 DEF Sync

(* Closing goes on, or ends where it was to go on to. *)
LEMMA RestStep ==
  ASSUME ShardInv, UNCHANGED <<pool, fw, wire>>, At("close"), NEW w, work' = Rest(w),
         DOMAIN w = DOMAIN Idle, w.pc = "close", w.goal = work.goal, w.then = work.then
  PROVE  ShardInv'
  <1>1. /\ DOMAIN work' = DOMAIN Idle /\ work'.goal \in Goals
        /\ (work'.pc = "close" /\ work'.then = work.then) \/ work'.pc = work.then
    BY RestMoves DEF ShardInv, WorkInv
  <1>2. work.then \in Thens
    BY DEF ShardInv, WorkInv
  <1>3. CASE work.then # "prove"
    <2>1. Calm(work')
      BY <1>1, <1>2, <1>3 DEF Calm, Thens, Writing, Deleting
    <2> QED
      BY <2>1, WorkMoves
  <1>4. CASE work.then = "prove"
    <2>1. work'.pc \notin Writing \cup Deleting /\ (work'.pc = "close" => work'.then \in Thens)
      BY <1>1, <1>4 DEF Writing, Deleting, Thens
    <2>2. ~Listed /\ Creates = {}
      BY <1>4 DEF ShardInv, OrphanInv, Proving
    <2>3. wire' \subseteq wire \cup {m \in wire' : m.op = "delete"}
      OBVIOUS
    <2> QED
      BY <1>1, <2>1, <2>2, <2>3, Keeps DEF ShardInv, PoolInv
  <1> QED
    BY <1>3, <1>4

LEMMA CloseStepStep ==
  ASSUME ShardInv, NEW t \in Services, CloseStep(t)
  PROVE  ShardInv'
  <1>1. CASE CloseChild(t)
    BY <1>1, KubeMoves DEF CloseChild
  <1>2. CASE ClosePublic(t)
    BY <1>2, RestStep, WorkFields DEF ClosePublic, ShardInv, WorkInv, At
  <1>3. CASE ClearMarkers(t)
    BY <1>3, RestStep, WorkFields DEF ClearMarkers, ShardInv, WorkInv, At
  <1> QED
    BY <1>1, <1>2, <1>3 DEF CloseStep

(* Between two NodePools there is no firewall and no create of one. *)
LEMMA FreshPool ==
  ASSUME ShardInv, UNCHANGED <<fw, wire>>, ~Listed, Creates = {}, Calm(work'),
         pool' = NoPool \/ pool' = [NoPool EXCEPT !.life = "live", !.vms = TRUE]
  PROVE  ShardInv'
  <1>1. Writes' = {} /\ Creates' = {} /\ ~Listed'
    BY NoWrites, SameWrites DEF Creates, Listed
  <1>2. /\ DOMAIN pool' = DOMAIN NoPool /\ pool'.uuid = 0 /\ pool'.life # "deleting"
        /\ pool'.target = 0 /\ pool'.seen = 0 /\ pool'.rejected = FALSE
    <2>1. /\ NoPool.uuid = 0 /\ NoPool.life = "none" /\ NoPool.target = 0 /\ NoPool.seen = 0
          /\ NoPool.rejected = FALSE
      BY DEF NoPool
    <2>2. CASE pool' = NoPool
      BY <2>1, <2>2
    <2>3. CASE pool' = [NoPool EXCEPT !.life = "live", !.vms = TRUE]
      BY <2>1, <2>3, PoolFields
    <2> QED
      BY <2>2, <2>3, Zenon
  <1>3. WorkInv' /\ IssuedInv'
    BY DEF Calm, WorkInv, IssuedInv, At
  <1>4. CloudInv'
    BY DEF ShardInv, CloudInv
  <1>5. PoolInv'
    BY <1>2 DEF Calm, PoolInv, ShardInv, CloudInv
  <1>6. WriteInv' /\ OrphanInv'
    BY <1>1 DEF WriteInv, OrphanInv
  <1> QED
    BY <1>3, <1>4, <1>5, <1>6 DEF ShardInv

LEMMA EnsureNodePoolStep ==
  ASSUME ShardInv, EnsureNodePool
  PROVE  ShardInv'
  <1>1. Calm(work')
    BY DEF EnsureNodePool, At, Calm, Writing, Deleting, ShardInv, WorkInv
  <1>2. ~Listed /\ Creates = {}
    BY DEF EnsureNodePool, ShardInv, OrphanInv
  <1> QED
    BY <1>1, <1>2, FreshPool DEF EnsureNodePool

LEMMA MarkMaterializedStep ==
  ASSUME ShardInv, MarkMaterialized
  PROVE  ShardInv'
  <1>1. UNCHANGED <<pool, fw, wire>> /\ WorkInv
    BY DEF MarkMaterialized, ShardInv
  <1>2. \/ FailShardClosed
        \/ work' = [work EXCEPT !.pc = "close", !.goal = "restage", !.todo = {work.s}, !.then = "child"]
        \/ Close({work.s}, {}, "child")
        \/ Goto("policy")
    BY DEF MarkMaterialized
  <1>3. CASE FailShardClosed
    BY <1>1, <1>3, CloseCalm, WorkMoves DEF FailShardClosed, Thens
  <1>4. CASE work' = [work EXCEPT !.pc = "close", !.goal = "restage", !.todo = {work.s}, !.then = "child"]
    <2>1. Calm(work')
      BY <1>1, <1>4, WorkFields DEF Calm, WorkInv, Goals, Thens, Writing, Deleting
    <2> QED
      BY <1>1, <2>1, WorkMoves
  <1>5. CASE Close({work.s}, {}, "child")
    BY <1>1, <1>5, CloseCalm, WorkMoves DEF Thens
  <1>6. CASE Goto("policy")
    BY <1>1, <1>6, GotoCalm, WorkMoves DEF Writing, Deleting
  <1> QED
    BY <1>2, <1>3, <1>4, <1>5, <1>6

LEMMA EnsureChildStep ==
  ASSUME ShardInv, EnsureChild
  PROVE  ShardInv'
  <1>1. UNCHANGED <<pool, fw, wire>> /\ WorkInv /\ work.goal \in Goals
    BY DEF EnsureChild, ShardInv, WorkInv
  <1>2. CASE work.goal = "restage"
    BY <1>1, <1>2, CloseCalm, WorkMoves DEF EnsureChild, Thens
  <1>3. CASE work.goal = "serve"
    <2>1. Goto("policy")
      BY <1>3 DEF EnsureChild
    <2> QED
      BY <1>1, <2>1, GotoCalm, WorkMoves DEF Writing, Deleting
  <1>4. CASE work.goal # "restage" /\ work.goal # "serve"
    <2>1. Goto(work.goal)
      BY <1>4 DEF EnsureChild
    <2>2. work.goal \notin Writing \cup Deleting \cup {"prove", "unpool", "close"}
      BY <1>1 DEF Goals, Writing, Deleting
    <2> QED
      BY <1>1, <2>1, <2>2, GotoCalm, WorkMoves
  <1> QED
    BY <1>2, <1>3, <1>4

(* Steps that close datapaths or go on to a place outside writes and deletes. *)
Plain == {"idle", "policy", "finalize", "owner", "deletePool", "stage", "status"}

LEMMA PlainMoves ==
  ASSUME ShardInv, UNCHANGED <<pool, fw, wire>>,
         \/ \E pc \in Plain : Goto(pc)
         \/ \E todo, clear : \E then \in Thens \ {"prove"} : Close(todo, clear, then)
  PROVE  ShardInv'
  <1>1. WorkInv
    BY DEF ShardInv
  <1>2. CASE \E pc \in Plain : Goto(pc)
    <2>1. PICK pc \in Plain : Goto(pc)
      BY <1>2
    <2>2. pc \notin Writing \cup Deleting \cup {"prove", "unpool", "close"}
      BY DEF Plain, Writing, Deleting
    <2> QED
      BY <1>1, <2>1, <2>2, GotoCalm, WorkMoves
  <1>3. CASE \E todo, clear : \E then \in Thens \ {"prove"} : Close(todo, clear, then)
    BY <1>1, <1>3, CloseCalm, WorkMoves
  <1> QED
    BY <1>2, <1>3

LEMMA QuietServeStep ==
  ASSUME ShardInv,
         \/ RestageFence \/ ServeUnprotected \/ ServeWaits \/ ServeUncovered
         \/ AuthorizeDatapath \/ PublishDatapath \/ MarkStaged \/ PublishStatus
  PROVE  ShardInv'
  <1>1. UNCHANGED <<pool, fw, wire>>
    BY Zenon DEF RestageFence, ServeUnprotected, ServeWaits, ServeUncovered, AuthorizeDatapath,
       PublishDatapath, MarkStaged, PublishStatus
  <1>2. "idle" \in Plain /\ "stage" \in Plain /\ "status" \in Plain /\ "idle" \in Thens \ {"prove"}
    BY DEF Plain, Thens
  <1>3. CASE RestageFence \/ ServeWaits \/ AuthorizeDatapath \/ MarkStaged \/ PublishStatus
    BY <1>1, <1>2, <1>3, PlainMoves, Zenon DEF RestageFence, ServeWaits, AuthorizeDatapath, MarkStaged, PublishStatus
  <1>4. CASE ServeUnprotected \/ ServeUncovered
    BY <1>1, <1>2, <1>4, PlainMoves DEF ServeUnprotected, ServeUncovered, FailShardClosed
  <1>5. CASE PublishDatapath
    <2>1. \E pc \in Plain : Goto(pc)
      BY <1>2, <1>5 DEF PublishDatapath
    <2> QED
      BY <1>1, <2>1, PlainMoves
  <1> QED
    BY <1>3, <1>4, <1>5

LEMMA ServeCoveredStep ==
  ASSUME ShardInv, ServeCovered
  PROVE  ShardInv'
  <1>1. Calm(work')
    BY WorkFields DEF ServeCovered, Calm, Writing, Deleting, Goals, ShardInv, WorkInv
  <1> QED
    BY <1>1, WorkMoves DEF ServeCovered

LEMMA QuietCleanupStep ==
  ASSUME ShardInv,
         \/ DropChild \/ OwnerRemains \/ LeaveShard \/ QuarantineEnds \/ LastOwner \/ RemoveServiceFinalizer
  PROVE  ShardInv'
  <1>1. UNCHANGED <<pool, fw, wire>>
    BY Zenon DEF DropChild, OwnerRemains, LeaveShard, QuarantineEnds, LastOwner, RemoveServiceFinalizer
  <1>2. /\ "idle" \in Plain /\ "policy" \in Plain /\ "finalize" \in Plain /\ "owner" \in Plain
        /\ "deletePool" \in Plain
        /\ "drop" \in Thens \ {"prove"} /\ "deletePool" \in Thens \ {"prove"}
    BY DEF Plain, Thens
  <1>3. CASE DropChild
    <2>1. \E pc \in Plain : Goto(pc)
      BY <1>2, <1>3 DEF DropChild
    <2> QED
      BY <1>1, <2>1, PlainMoves
  <1>4. CASE OwnerRemains \/ QuarantineEnds \/ RemoveServiceFinalizer
    BY <1>1, <1>2, <1>4, PlainMoves, Zenon DEF OwnerRemains, QuarantineEnds, RemoveServiceFinalizer
  <1>5. CASE LeaveShard
    <2>1. Goto("idle") \/ Close({work.s}, {work.s}, "drop")
      BY <1>5 DEF LeaveShard
    <2> QED
      BY <1>1, <1>2, <2>1, PlainMoves
  <1>6. CASE LastOwner
    <2>1. \/ Goto("idle") \/ Goto("deletePool")
          \/ Close({work.s}, {work.s}, "deletePool") \/ Close({work.s}, {work.s}, "drop")
      BY <1>6 DEF LastOwner
    <2> QED
      BY <1>1, <1>2, <2>1, PlainMoves
  <1> QED
    BY <1>3, <1>4, <1>5, <1>6

LEMMA DeleteNodePoolStep ==
  ASSUME ShardInv, DeleteNodePool
  PROVE  ShardInv'
  <1>1. UNCHANGED <<fw, wire>> /\ WorkInv
    BY DEF DeleteNodePool, ShardInv
  <1>2. /\ DOMAIN pool' = DOMAIN NoPool /\ pool'.uuid = pool.uuid /\ pool'.pending = pool.pending
        /\ pool'.issued = pool.issued /\ pool'.rejected = pool.rejected /\ pool'.life = "deleting"
        /\ pool'.target = pool.target /\ pool'.seen = pool.seen
    BY PoolFields DEF DeleteNodePool, ShardInv, PoolInv
  <1>3. /\ DOMAIN work' = DOMAIN Idle /\ work'.goal \in Goals
        /\ work'.pc = "idle" \/ work'.pc = "delete"
    BY <1>1, GotoMoves DEF DeleteNodePool
  <1>4. work'.pc \notin Writing /\ ~Proving' /\ work'.pc # "close"
    BY <1>3 DEF Writing, Proving, At
  <1>5. wire' \subseteq wire \cup {m \in wire' : m.op = "delete"}
    BY <1>1
  <1> QED
    BY <1>1, <1>2, <1>3, <1>4, <1>5, Keeps

LEMMA MarkProvenStep ==
  ASSUME ShardInv, MarkProven
  PROVE  ShardInv'
  <1>1. UNCHANGED <<pool, fw, wire>> /\ WorkInv
    BY DEF MarkProven, ShardInv
  <1>2. work'.pc = "unpool" /\ DOMAIN work' = DOMAIN Idle /\ work'.goal \in Goals
    BY <1>1, GotoMoves DEF MarkProven
  <1>3. ~Listed /\ Creates = {}
    BY DEF MarkProven, Proving, ShardInv, OrphanInv
  <1>4. work'.pc \notin Writing /\ work'.pc \notin Deleting /\ work'.pc # "close"
    BY <1>2 DEF Writing, Deleting
  <1>5. wire' \subseteq wire \cup {m \in wire' : m.op = "delete"}
    BY <1>1
  <1> QED
    BY <1>1, <1>2, <1>3, <1>4, <1>5, Keeps, Zenon DEF ShardInv, PoolInv

LEMMA RemovePoolFinalizerStep ==
  ASSUME ShardInv, RemovePoolFinalizer
  PROVE  ShardInv'
  <1>1. ~Listed /\ Creates = {} /\ WorkInv
    BY DEF RemovePoolFinalizer, Proving, ShardInv, OrphanInv
  <1>2. \/ Close(References, {}, "idle")
        \/ Close({work.s}, {work.s}, "drop")
        \/ Goto("idle")
    BY DEF RemovePoolFinalizer, FailShardClosed
  <1>3. Calm(work')
    BY <1>1, <1>2, CloseCalm, GotoCalm DEF Thens, Writing, Deleting
  <1> QED
    BY <1>1, <1>3, FreshPool DEF RemovePoolFinalizer

-----------------------------------------------------------------------------
(* The cloud and everybody else. *)

(* The firewall goes: nothing that was promised of it is left. *)
LEMMA FirewallGoes ==
  ASSUME ShardInv, UNCHANGED <<pool, work>>, wire' \subseteq wire,
         DOMAIN fw' = {"id", "rules", "last"}, fw'.id = 0, fw'.last = fw.last
  PROVE  ShardInv'
  <1>1. ~Listed' /\ Creates' \subseteq Creates /\ Identity' = Identity
    BY DEF Listed, Creates, Identity
  <1>2. Writes' \subseteq Creates
    BY DEF Writes, Creates, ShardInv, CloudInv
  <1>3. WorkInv' /\ CloudInv' /\ PoolInv'
    BY DEF ShardInv, WorkInv, CloudInv, PoolInv, At
  <1>4. IssuedInv'
    <2>1. Writes = {} => Writes' = {}
      BY <1>2, CreatesWrite
    <2> QED
      BY <1>1, <2>1 DEF ShardInv, IssuedInv
  <1>5. WriteInv'
    <2>1. Request' = Request /\ (At("reply")' <=> At("reply"))
      BY DEF Request, At
    <2>2. ASSUME NEW m \in Writes'
          PROVE  m \in Writes /\ m.op = "create"
      BY <1>2, CreatesWrite DEF Creates
    <2> QED
      BY <1>1, <2>1, <2>2 DEF ShardInv, WriteInv
  <1>6. OrphanInv'
    BY <1>1 DEF ShardInv, OrphanInv, Proving, At
  <1> QED
    BY <1>3, <1>4, <1>5, <1>6 DEF ShardInv

(* A write takes effect: it was the only one. *)
LEMMA WriteCommits ==
  ASSUME ShardInv, UNCHANGED <<pool, work>>, NEW m \in Writes, wire' = wire \ {m},
         DOMAIN fw' = {"id", "rules", "last"}, fw'.last \in Nat, fw.last <= fw'.last,
         \/ fw'.id = fw.id /\ m.op = "put"
         \/ fw'.id = fw.last + 1 /\ fw'.last = fw.last + 1 /\ m.op = "create"
  PROVE  ShardInv'
  <1>1. Writes' = {} /\ Creates' = {}
    <2>1. \A n \in Writes : n = m
      BY DEF ShardInv, WriteInv
    <2>2. CASE fw'.id = fw.id
      BY <2>1, <2>2 DEF Writes, Creates
    <2>3. CASE fw'.id = fw.last + 1
      <3>1. ASSUME NEW n \in wire', n.op = "put" PROVE n.id # fw'.id
        BY <2>3, <3>1 DEF ShardInv, CloudInv
      <3> QED
        BY <2>1, <3>1 DEF Writes, Creates, ShardInv, CloudInv
    <2> QED
      BY <2>2, <2>3
  <1>2. CloudInv'
    BY DEF ShardInv, CloudInv
  <1>3. WorkInv' /\ PoolInv'
    BY DEF ShardInv, WorkInv, PoolInv, CloudInv, At
  <1>4. work.pc \in Writing => work.pc = "reply"
    BY DEF ShardInv, IssuedInv
  <1>5. IssuedInv'
    BY <1>4 DEF ShardInv, IssuedInv
  <1>6. WriteInv'
    BY <1>1 DEF WriteInv
  <1>7. OrphanInv'
    <2>1. pool.life # "none" /\ ~Proving
      BY PutsListed DEF ShardInv, OrphanInv, Creates, Writes
    <2> QED
      BY <2>1 DEF OrphanInv, Proving, At
  <1> QED
    BY <1>2, <1>3, <1>5, <1>6, <1>7 DEF ShardInv

(* A request that reaches nothing. *)
LEMMA RequestDrops ==
  ASSUME ShardInv, UNCHANGED <<pool, work, fw>>, wire' \subseteq wire
  PROVE  ShardInv'
  <1>1. Writes' \subseteq Writes /\ Creates' \subseteq Creates /\ Identity' = Identity /\ Listed' = Listed
    BY DEF Writes, Creates, Identity, Listed
  <1>2. WorkInv' /\ CloudInv' /\ PoolInv'
    BY DEF ShardInv, WorkInv, CloudInv, PoolInv, At
  <1>3. IssuedInv'
    BY <1>1 DEF ShardInv, IssuedInv
  <1>4. WriteInv'
    <2>1. Request' = Request /\ (At("reply")' <=> At("reply"))
      BY DEF Request, At
    <2> QED
      BY <1>1, <2>1 DEF ShardInv, WriteInv
  <1>5. OrphanInv'
    BY <1>1 DEF ShardInv, OrphanInv, Proving, At
  <1> QED
    BY <1>2, <1>3, <1>4, <1>5 DEF ShardInv

LEMMA CommitStep ==
  ASSUME ShardInv, NEW m \in wire, Commit(m)
  PROVE  ShardInv'
  <1>1. UNCHANGED <<pool, work>> /\ wire' = wire \ {m}
    BY DEF Commit
  <1>2. DOMAIN fw = {"id", "rules", "last"} /\ fw.last \in Nat /\ m.op \in {"create", "put", "delete"}
    BY DEF ShardInv, CloudInv
  <1>3. CASE m.op = "create" /\ ~Listed
    <2>1. fw' = [id |-> fw.last + 1, rules |-> m.rules, last |-> fw.last + 1]
      BY <1>3 DEF Commit
    <2>2. m \in Writes
      BY <1>3 DEF Writes
    <2> QED
      BY <1>1, <1>2, <1>3, <2>1, <2>2, WriteCommits
  <1>4. CASE m.op = "put" /\ fw.id = m.id
    <2>1. fw' = [fw EXCEPT !.rules = m.rules]
      BY <1>4 DEF Commit
    <2>2. m \in Writes
      BY <1>4 DEF Writes
    <2> QED
      BY <1>1, <1>2, <1>4, <2>1, <2>2, WriteCommits
  <1>5. CASE m.op = "delete" /\ fw.id = m.id
    <2>1. fw' = [fw EXCEPT !.id = 0, !.rules = Nothing]
      BY <1>5 DEF Commit
    <2> QED
      BY <1>1, <1>2, <2>1, FirewallGoes
  <1>6. CASE ~(m.op = "create" /\ ~Listed) /\ ~(m.op = "put" /\ fw.id = m.id)
             /\ ~(m.op = "delete" /\ fw.id = m.id)
    <2>1. fw' = fw
      BY <1>6 DEF Commit
    <2> QED
      BY <1>1, <2>1, RequestDrops
  <1> QED
    BY <1>3, <1>4, <1>5, <1>6

LEMMA OthersStep ==
  ASSUME ShardInv, CapacityDrains \/ PoolDeleted \/ FirewallVanishes \/ Crash
                   \/ (\E s \in Services : Delete(s) \/ \E p \in plan.to : Edit(s, p))
  PROVE  ShardInv'
  <1>1. CASE CapacityDrains
    BY <1>1, Outside, PoolFields DEF CapacityDrains, ShardInv, PoolInv
  <1>2. CASE PoolDeleted
    BY <1>2, Outside, PoolFields DEF PoolDeleted, ShardInv, PoolInv
  <1>3. CASE FirewallVanishes
    <2>1. fw' = [fw EXCEPT !.id = 0, !.rules = Nothing] /\ UNCHANGED <<pool, wire, work>>
      BY <1>3 DEF FirewallVanishes
    <2>2. DOMAIN fw = {"id", "rules", "last"}
      BY DEF ShardInv, CloudInv
    <2> QED
      BY <2>1, <2>2, FirewallGoes
  <1>4. CASE Crash
    BY <1>4, IdleCalm, WorkMoves DEF Crash
  <1>5. CASE \E s \in Services : Delete(s) \/ \E p \in plan.to : Edit(s, p)
    <2>1. UNCHANGED <<pool, fw, wire, work>>
      BY <1>5, Zenon DEF Delete, Edit
    <2> QED
      BY <2>1, KubeMoves
  <1> QED
    BY <1>1, <1>2, <1>3, <1>4, <1>5

-----------------------------------------------------------------------------
LEMMA ShardInit ==
  ASSUME Init
  PROVE  ShardInv
  <1>1. pool = NoPool /\ fw = [id |-> 0, rules |-> Nothing, last |-> 0] /\ wire = {} /\ work = Idle
    BY DEF Init
  <1>2. work.pc = "idle" /\ work.goal = "none"
    BY <1>1 DEF Idle
  <1>3. pool.life = "none" /\ pool.uuid = 0 /\ pool.target = 0 /\ pool.seen = 0 /\ pool.rejected = FALSE
    BY <1>1 DEF NoPool
  <1>4. WorkInv /\ IssuedInv
    BY <1>1, <1>2 DEF WorkInv, IssuedInv, At, Goals, Writing
  <1>5. CloudInv
    BY <1>1 DEF CloudInv
  <1>6. PoolInv
    BY <1>1, <1>2, <1>3 DEF PoolInv, Deleting
  <1>7. WriteInv /\ OrphanInv
    BY <1>1 DEF WriteInv, OrphanInv, Writes, Creates, Listed
  <1> QED
    BY <1>4, <1>5, <1>6, <1>7 DEF ShardInv

LEMMA ShardNext ==
  ASSUME ShardInv, [Next]_vars
  PROVE  ShardInv'
  <1>1. ASSUME NEW s \in Services, Sync(s) PROVE ShardInv'
    BY <1>1, SyncStep
  <1>2. ASSUME NEW t \in Services, CloseStep(t) PROVE ShardInv'
    BY <1>2, CloseStepStep
  <1>3. CASE PolicyStep
    BY <1>3, QuietPolicyStep, ClearedStep, ObserveAppliedAbsenceStep, PromotePendingStep, StageStep,
       RetireRejectedCreateStep, IssueStep, AuthorizeMutationStep, RejectUndispatchedStep,
       SendMutationStep, CreateSucceedsStep, Zenon DEF PolicyStep
  <1>4. CASE DeleteStep
    BY <1>4, QuietDeleteStep, ObserveDeletedStep, RecordCleanupSeenStep, AwaitDeleteStep,
       IssueDeleteStep, AuthorizeDeleteStep, SendDeleteStep, Zenon DEF DeleteStep
  <1>5. CASE ServeStep
    BY <1>5, EnsureNodePoolStep, MarkMaterializedStep, EnsureChildStep, QuietServeStep,
       ServeCoveredStep, Zenon DEF ServeStep
  <1>6. CASE CleanupStep
    BY <1>6, QuietCleanupStep, DeleteNodePoolStep, MarkProvenStep, RemovePoolFinalizerStep,
       Zenon DEF CleanupStep
  <1>7. CASE FaultStep
    BY <1>7, MutationUnansweredStep, MutationNotSentStep, DeleteUnansweredStep, OthersStep,
       Zenon DEF FaultStep
  <1>8. CASE UNCHANGED vars
    BY <1>8, KubeMoves DEF vars
  <1> QED
    BY <1>1, <1>2, <1>3, <1>4, <1>5, <1>6, <1>7, <1>8, CommitStep, OthersStep, Zenon DEF Next

LEMMA ShardAlways == Spec => []ShardInv
  BY ShardInit, ShardNext, PTL DEF Spec

(* At any time at most one write of the shard's firewall can still take     *)
(* effect, and no create while the firewall is there, whatever requests go   *)
(* unanswered, wherever the controller crashes and whoever deletes what      *)
(* (reconcileShardFirewallPolicy's issued receipt).                          *)
THEOREM OneWriteAtATime == Spec => []OneWrite
  <1>1. ShardInv => OneWrite
    <2>1. SUFFICES ASSUME ShardInv PROVE OneWrite
      OBVIOUS
    <2>2. Listed => \A m \in wire : m.op # "create"
      BY <2>1, NoCreates DEF Creates
    <2>3. CASE Writes = {}
      BY <2>2, <2>3, FS_EmptySet DEF OneWrite
    <2>4. CASE Writes # {}
      <3>1. PICK m : m \in Writes
        BY <2>4
      <3>2. Writes = {m}
        BY <2>1, <3>1 DEF ShardInv, WriteInv
      <3>3. Cardinality({m}) = 1
        BY FS_Singleton
      <3> QED
        BY <2>2, <3>2, <3>3 DEF OneWrite
    <2> QED
      BY <2>3, <2>4
  <1> QED
    BY <1>1, ShardAlways, PTL

(* The NodePool outlives the firewall it is the record of: when it is gone   *)
(* the firewall is gone too and no create of it can still commit, so nothing *)
(* unrecorded is left to pay for (deleteAggregateShardFirewall's spaced      *)
(* absences, removePoolFinalizer).                                           *)
THEOREM PoolOutlivesFirewall == Spec => []NoOrphan
  <1>1. ShardInv => NoOrphan
    BY DEF ShardInv, OrphanInv, NoOrphan, Creates
  <1> QED
    BY <1>1, ShardAlways, PTL
=============================================================================
