-------------------------- MODULE KeyedMutexProofs --------------------------
(***************************************************************************)
(* Proofs about KeyedMutex for any number of goroutines, VMs and entries:  *)
(* the invariant IInv is inductive, so the lock is mutually exclusive per  *)
(* key, its reference counts are exact and its map has no idle slot.       *)
(***************************************************************************)
EXTENDS KeyedMutex, TLAPS, FiniteSetTheorems

\* Users(e) is a set of callers, so its cardinality is a natural number.
LEMMA UsersFinite ==
  ASSUME NEW e
  PROVE  IsFiniteSet(Users(e)) /\ Cardinality(Users(e)) \in Nat
<1>1. Users(e) \in SUBSET Callers
  BY DEF Users
<1>2. IsFiniteSet(Users(e))
  BY <1>1, CallersFinite, FS_Subset
<1> QED
  BY <1>2, FS_CardinalityType

\* newKeyedMutex starts with an empty map and every goroutine outside Lock.
LEMMA InitIInv == Init => IInv
<1> SUFFICES ASSUME Init PROVE IInv
  OBVIOUS
<1>1. TypeOK
  BY DEF Init, TypeOK, States
<1>2. Reachable /\ IdlePointsNowhere /\ TokenIsHolders
  BY DEF Init, Reachable, Counted, IdlePointsNowhere, TokenIsHolders
<1>3. SlotsDistinct /\ NoIdleSlot
  BY DEF Init, SlotsDistinct, NoIdleSlot
<1>4. RefsExact
  <2>1. \A e \in Entries : Users(e) = {}
    BY DEF Init, Users, Counted
  <2> QED
    BY <2>1, FS_EmptySet DEF Init, RefsExact
<1> QED
  BY <1>1, <1>2, <1>3, <1>4 DEF IInv

\* Lock of a key without an entry keeps the invariant.
LEMMA EnterNewIInv ==
  ASSUME IInv, NEW c \in Callers, NEW k \in Keys, EnterNew(c, k)
  PROVE  IInv'
<1> USE NoEntryAssumption, NoCallerAssumption DEF IInv
<1>0. PICK e \in Entries :
        /\ Fresh(e)
        /\ slot' = [slot EXCEPT ![k] = e]
        /\ refs' = [refs EXCEPT ![e] = 1]
        /\ held' = [held EXCEPT ![e] = NoCaller]
        /\ mine' = [mine EXCEPT ![c] = e]
  BY Zenon DEF EnterNew
<1>1. /\ pc[c] = "idle" /\ slot[k] = NoEntry
      /\ pc' = [pc EXCEPT ![c] = "select"]
      /\ key' = [key EXCEPT ![c] = k]
  BY DEF EnterNew
<1>2. TypeOK'
  BY <1>0, <1>1 DEF TypeOK, States
<1>3. Reachable'
  BY <1>0, <1>1 DEF Reachable, Counted, TypeOK, Fresh
<1>4. IdlePointsNowhere'
  BY <1>0, <1>1 DEF IdlePointsNowhere, TypeOK
<1>5. TokenIsHolders'
  BY <1>0, <1>1 DEF TokenIsHolders, TypeOK, Fresh
<1>6. SlotsDistinct'
  BY <1>0, <1>1 DEF SlotsDistinct, TypeOK, Fresh
<1>7. NoIdleSlot'
  BY <1>0, <1>1 DEF NoIdleSlot, Counted, TypeOK
<1>8. RefsExact'
  <2> SUFFICES ASSUME NEW f \in Entries
               PROVE  refs'[f] = Cardinality(Users(f)')
    BY DEF RefsExact
  <2>1. CASE f = e
    <3>1. Users(f)' = {c}
      BY <1>0, <1>1, <2>1 DEF Users, Counted, TypeOK, Fresh
    <3> QED
      BY <1>0, <2>1, <3>1, FS_Singleton, Zenon DEF TypeOK
  <2>2. CASE f # e
    <3>1. Users(f)' = Users(f)
      BY <1>0, <1>1, <2>2 DEF Users, Counted, TypeOK
    <3> QED
      BY <1>0, <2>2, <3>1 DEF RefsExact, TypeOK
  <2> QED
    BY <2>1, <2>2
<1> QED
  BY <1>2, <1>3, <1>4, <1>5, <1>6, <1>7, <1>8

\* Lock of a key in use keeps the invariant: one more reference.
LEMMA EnterExistingIInv ==
  ASSUME IInv, NEW c \in Callers, NEW k \in Keys, EnterExisting(c, k)
  PROVE  IInv'
<1> USE NoEntryAssumption, NoCallerAssumption DEF IInv
<1>0. slot[k] \in Entries
  BY DEF EnterExisting, TypeOK
<1>1. TypeOK'
  BY <1>0 DEF TypeOK, States, EnterExisting
<1>2. Reachable' /\ IdlePointsNowhere'
  BY <1>0 DEF Reachable, IdlePointsNowhere, Counted, TypeOK, EnterExisting
<1>3. TokenIsHolders' /\ SlotsDistinct'
  BY DEF TokenIsHolders, SlotsDistinct, TypeOK, EnterExisting
<1>4. NoIdleSlot'
  BY DEF NoIdleSlot, Counted, TypeOK, EnterExisting
<1>5. RefsExact'
  <2> SUFFICES ASSUME NEW f \in Entries
               PROVE  refs'[f] = Cardinality(Users(f)')
    BY DEF RefsExact
  <2>1. CASE f = slot[k]
    <3>1. Users(f)' = Users(f) \cup {c} /\ c \notin Users(f)
      BY <2>1 DEF Users, Counted, TypeOK, EnterExisting
    <3>2. Cardinality(Users(f)') = Cardinality(Users(f)) + 1
      BY <3>1, UsersFinite, FS_AddElement, Zenon
    <3>3. refs'[f] = refs[f] + 1
      BY <2>1 DEF TypeOK, EnterExisting
    <3> QED
      BY <3>2, <3>3 DEF RefsExact
  <2>2. CASE f # slot[k]
    <3>1. Users(f)' = Users(f)
      BY <2>2 DEF Users, Counted, TypeOK, EnterExisting
    <3> QED
      BY <2>2, <3>1 DEF RefsExact, TypeOK, EnterExisting
  <2> QED
    BY <2>1, <2>2
<1> QED
  BY <1>1, <1>2, <1>3, <1>4, <1>5

\* The steps that only move a token or a program counter keep the invariant.
LEMMA TokenStepIInv ==
  ASSUME IInv, NEW c \in Callers,
         Acquire(c) \/ Block(c) \/ Cancel(c) \/ Unlock(c)
  PROVE  IInv'
<1> USE NoEntryAssumption, NoCallerAssumption DEF IInv
<1>0. mine[c] \in Entries /\ pc[c] # "idle"
  BY DEF Reachable, Counted, Acquire, Block, Cancel, Unlock
<1>1. /\ UNCHANGED <<slot, refs, key, mine>>
      /\ pc'[c] # "idle"
      /\ \A d \in Callers : d # c => pc'[d] = pc[d]
  BY DEF TypeOK, Acquire, Block, Cancel, Unlock
<1>2. TypeOK'
  BY <1>0 DEF TypeOK, States, Acquire, Block, Cancel, Unlock
<1>3. Reachable' /\ IdlePointsNowhere' /\ SlotsDistinct' /\ NoIdleSlot'
  BY <1>0, <1>1 DEF Reachable, IdlePointsNowhere, SlotsDistinct, NoIdleSlot, Counted
<1>4. TokenIsHolders'
  <2>1. CASE Acquire(c)
    BY <1>0, <2>1 DEF TokenIsHolders, Acquire, TypeOK
  <2>2. CASE Block(c) \/ Cancel(c)
    BY <1>0, <2>2 DEF TokenIsHolders, Block, Cancel, TypeOK
  <2>3. CASE Unlock(c)
    BY <1>0, <2>3 DEF TokenIsHolders, Unlock, TypeOK
  <2> QED
    BY <2>1, <2>2, <2>3
<1>5. RefsExact'
  <2>1. \A e \in Entries : Users(e)' = Users(e)
    BY <1>0, <1>1 DEF Users, Counted
  <2> QED
    BY <1>1, <2>1 DEF RefsExact
<1> QED
  BY <1>2, <1>3, <1>4, <1>5

\* release() drops one reference, and the map slot only with the last one:
\* RefsExact makes the caller the only user of an entry whose count is 1.
LEMMA ReleaseIInv ==
  ASSUME IInv, NEW c \in Callers, Release(c)
  PROVE  IInv'
<1> USE NoEntryAssumption, NoCallerAssumption DEF IInv
<1> DEFINE e == mine[c]
<1>0. /\ e \in Entries /\ pc[c] = "release" /\ key[c] \in Keys
      /\ slot[key[c]] = e /\ c \in Users(e)
  BY DEF Reachable, Counted, Release, Users, TypeOK
<1>1. IsFiniteSet(Users(e)) /\ Cardinality(Users(e)) \in Nat
  BY UsersFinite
<1>2. refs[e] = Cardinality(Users(e)) /\ refs[e] # 0
  BY <1>0, <1>1, FS_EmptySet DEF RefsExact
<1>3. ASSUME refs[e] = 1, NEW d \in Callers, d # c, Counted(d)
      PROVE  mine[d] # e /\ key[d] # key[c]
  <2>1. Cardinality(Users(e)) = 1
    BY <1>2, <1>3
  <2>2. PICK x : Users(e) = {x}
    BY <1>1, <2>1, FS_Singleton, Zenon
  <2>3. Users(e) = {c}
    BY <1>0, <2>2
  <2>4. mine[d] # e
    BY <1>3, <2>3 DEF Users
  <2> QED
    BY <1>0, <1>3, <2>4 DEF Reachable
<1>4. TypeOK'
  <2>1. refs[e] - 1 \in Nat
    BY <1>1, <1>2
  <2> QED
    BY <1>0, <2>1 DEF TypeOK, States, Release
<1>5. Reachable'
  <2> SUFFICES ASSUME NEW d \in Callers, Counted(d)'
               PROVE  mine'[d] \in Entries /\ slot'[key'[d]] = mine'[d]
    BY DEF Reachable
  <2>1. d # c /\ Counted(d) /\ mine'[d] = mine[d] /\ key'[d] = key[d]
    BY DEF Counted, Release, TypeOK
  <2>2. slot[key[d]] = mine[d] /\ mine[d] \in Entries
    BY <2>1 DEF Reachable
  <2>3. slot'[key[d]] = slot[key[d]]
    <3>1. CASE refs[e] = 1
      BY <1>0, <1>3, <2>1, <3>1 DEF Release, TypeOK
    <3>2. CASE refs[e] # 1
      BY <1>0, <3>2 DEF Release, TypeOK
    <3> QED
      BY <3>1, <3>2
  <2> QED
    BY <2>1, <2>2, <2>3
<1>6. IdlePointsNowhere' /\ TokenIsHolders'
  BY DEF IdlePointsNowhere, TokenIsHolders, Release, TypeOK
<1>7. SlotsDistinct'
  BY DEF SlotsDistinct, Release, TypeOK
<1>8. NoIdleSlot'
  <2> SUFFICES ASSUME NEW k \in Keys, slot'[k] # NoEntry
               PROVE  \E d \in Callers : Counted(d)' /\ key'[d] = k
    BY DEF NoIdleSlot
  <2>1. CASE k # key[c]
    <3>1. PICK d \in Callers : Counted(d) /\ key[d] = k
      BY <2>1 DEF NoIdleSlot, Release, TypeOK
    <3> QED
      BY <2>1, <3>1 DEF Counted, Release, TypeOK
  <2>2. CASE k = key[c]
    <3>1. refs[e] # 1
      BY <1>0, <2>2 DEF Release, TypeOK
    <3>2. Users(e) # {c}
      BY <1>2, <3>1, FS_Singleton, Zenon
    <3>3. PICK d \in Callers : d # c /\ Counted(d) /\ mine[d] = e
      BY <1>0, <3>2 DEF Users
    <3>4. key[d] = key[c]
      BY <1>0, <3>3 DEF Reachable, SlotsDistinct, TypeOK
    <3> QED
      BY <2>2, <3>3, <3>4 DEF Counted, Release, TypeOK
  <2> QED
    BY <2>1, <2>2
<1>9. RefsExact'
  <2> SUFFICES ASSUME NEW f \in Entries
               PROVE  refs'[f] = Cardinality(Users(f)')
    BY DEF RefsExact
  <2>1. CASE f = e
    <3>1. Users(f)' = Users(f) \ {c}
      BY <2>1 DEF Users, Counted, Release, TypeOK
    <3>2. Cardinality(Users(f)') = Cardinality(Users(f)) - 1
      BY <1>0, <1>1, <2>1, <3>1, FS_RemoveElement, Zenon
    <3>3. refs'[f] = refs[f] - 1
      BY <2>1 DEF Release, TypeOK
    <3> QED
      BY <1>2, <2>1, <3>2, <3>3
  <2>2. CASE f # e
    <3>1. Users(f)' = Users(f)
      BY <1>0, <2>2 DEF Users, Counted, Release, TypeOK
    <3> QED
      BY <2>2, <3>1 DEF RefsExact, Release, TypeOK
  <2> QED
    BY <2>1, <2>2
<1> QED
  BY <1>4, <1>5, <1>6, <1>7, <1>8, <1>9

\* IInv is inductive.
LEMMA NextIInv == IInv /\ [Next]_vars => IInv'
<1> SUFFICES ASSUME IInv, [Next]_vars PROVE IInv'
  OBVIOUS
<1>1. CASE Next
  <2>1. PICK c \in Callers : \/ \E k \in Keys : EnterNew(c, k) \/ EnterExisting(c, k)
                             \/ Step(c)
                             \/ Cancel(c)
    BY <1>1 DEF Next
  <2>2. CASE \E k \in Keys : EnterNew(c, k) \/ EnterExisting(c, k)
    BY <2>2, EnterNewIInv, EnterExistingIInv
  <2>3. CASE Step(c)
    BY <2>3, TokenStepIInv, ReleaseIInv DEF Step
  <2>4. CASE Cancel(c)
    BY <2>4, TokenStepIInv
  <2> QED
    BY <2>1, <2>2, <2>3, <2>4
<1>2. CASE UNCHANGED vars
  <2>1. \A e \in Entries : Users(e)' = Users(e)
    BY <1>2 DEF vars, Users, Counted
  <2>2. RefsExact'
    BY <1>2, <2>1 DEF vars, IInv, RefsExact
  <2> QED
    BY <1>2, <2>2 DEF vars, IInv, TypeOK, Reachable, Counted, IdlePointsNowhere,
                      TokenIsHolders, SlotsDistinct, NoIdleSlot
<1> QED
  BY <1>1, <1>2

\* Two goroutines that own one key would share its map entry, whose channel
\* holds a single token.
LEMMA IInvExcludes == IInv => MutualExclusion
<1> SUFFICES ASSUME IInv, NEW c \in Callers, NEW d \in Callers,
                    pc[c] = "holding", pc[d] = "holding", key[c] = key[d]
             PROVE  c = d
  BY DEF MutualExclusion
<1>1. mine[c] = mine[d]
  BY DEF IInv, Reachable, Counted
<1> QED
  BY <1>1 DEF IInv, TokenIsHolders

\* The keyed mutex of the CSI controller excludes two holders of one VM's key,
\* counts its users exactly and keeps no idle map slot, for every number of
\* goroutines, keys and entry objects (keyed_mutex.go Lock and release).
THEOREM KeyedMutexSafe == Spec => [](TypeOK /\ MutualExclusion /\ RefsExact /\ NoIdleSlot)
<1>1. IInv => TypeOK /\ MutualExclusion /\ RefsExact /\ NoIdleSlot
  BY IInvExcludes DEF IInv
<1> QED
  BY InitIInv, NextIInv, <1>1, PTL DEF Spec
=============================================================================
