----------------------------- MODULE KeyedMutex -----------------------------
(***************************************************************************)
(* The in-process per-VM lock of the CSI controller:                       *)
(* csi-driver/pkg/cloud/inspace/keyed_mutex.go, taken through lockVM of    *)
(* vm_lock.go.                                                             *)
(*                                                                         *)
(* An entry of the map is a heap object: a goroutine keeps a pointer to it *)
(* while another goroutine may already have deleted the map slot and put a *)
(* new entry there.  The model therefore gives every entry an identity of  *)
(* its own (Entries) and keeps the map (slot) apart from the objects.      *)
(* Every critical section of m.mu and every channel operation is one step. *)
(***************************************************************************)
EXTENDS Naturals, FiniteSets

CONSTANTS Callers,   \* goroutines serving CSI calls
          Keys,      \* VM UUIDs
          Entries,   \* identities of keyedMutexEntry objects
          NoEntry,   \* nil
          NoCaller   \* an empty held channel

ASSUME NoEntryAssumption == NoEntry \notin Entries
ASSUME NoCallerAssumption == NoCaller \notin Callers
ASSUME CallersFinite == IsFiniteSet(Callers)

VARIABLES
  slot,   \* m.entries: the entry a key maps to, or NoEntry
  refs,   \* entry.refs
  held,   \* entry.held: the caller whose token fills the one-slot channel
  pc,     \* where each caller is inside Lock, unlock or release
  key,    \* the key the caller locks
  mine    \* the caller's pointer to its entry

vars == <<slot, refs, held, pc, key, mine>>

\* "select"   refs counted, about to try the channel without blocking
\* "wait"     blocked in the inner select on the channel and ctx.Done
\* "holding"  the token is in the channel, the caller owns the key
\* "release"  about to enter release(): after a cancelled wait or <-held
States == {"idle", "select", "wait", "holding", "release"}

Counted(c) == pc[c] # "idle"
Users(e) == {c \in Callers : Counted(c) /\ mine[c] = e}

\* The map, its entries and the goroutines' pointers have their types.
TypeOK ==
  /\ slot \in [Keys -> Entries \cup {NoEntry}]
  /\ refs \in [Entries -> Nat]
  /\ held \in [Entries -> Callers \cup {NoCaller}]
  /\ pc \in [Callers -> States]
  /\ key \in [Callers -> Keys]
  /\ mine \in [Callers -> Entries \cup {NoEntry}]

Init ==
  /\ slot = [k \in Keys |-> NoEntry]
  /\ refs = [e \in Entries |-> 0]
  /\ held = [e \in Entries |-> NoCaller]
  /\ pc = [c \in Callers |-> "idle"]
  /\ key \in [Callers -> Keys]
  /\ mine = [c \in Callers |-> NoEntry]

\* An object the garbage collector may hand out again: nobody points at it.
Fresh(e) == /\ \A c \in Callers : mine[c] # e
            /\ \A k \in Keys : slot[k] # e

\* First critical section of Lock when the key has no entry.
EnterNew(c, k) ==
  /\ pc[c] = "idle"
  /\ slot[k] = NoEntry
  /\ \E e \in Entries :
       /\ Fresh(e)
       /\ slot' = [slot EXCEPT ![k] = e]
       /\ refs' = [refs EXCEPT ![e] = 1]
       /\ held' = [held EXCEPT ![e] = NoCaller]
       /\ mine' = [mine EXCEPT ![c] = e]
  /\ pc' = [pc EXCEPT ![c] = "select"]
  /\ key' = [key EXCEPT ![c] = k]

\* First critical section of Lock when the key is in use.
EnterExisting(c, k) ==
  /\ pc[c] = "idle"
  /\ slot[k] # NoEntry
  /\ refs' = [refs EXCEPT ![slot[k]] = @ + 1]
  /\ mine' = [mine EXCEPT ![c] = slot[k]]
  /\ pc' = [pc EXCEPT ![c] = "select"]
  /\ key' = [key EXCEPT ![c] = k]
  /\ UNCHANGED <<slot, held>>

\* The send on entry.held, in either select.
Acquire(c) ==
  /\ pc[c] \in {"select", "wait"}
  /\ held[mine[c]] = NoCaller
  /\ held' = [held EXCEPT ![mine[c]] = c]
  /\ pc' = [pc EXCEPT ![c] = "holding"]
  /\ UNCHANGED <<slot, refs, key, mine>>

\* The default branch of the outer select: the key is busy.
Block(c) ==
  /\ pc[c] = "select"
  /\ held[mine[c]] # NoCaller
  /\ pc' = [pc EXCEPT ![c] = "wait"]
  /\ UNCHANGED <<slot, refs, held, key, mine>>

\* ctx.Done in the inner select: the wait budget lockVM granted is over.
Cancel(c) ==
  /\ pc[c] = "wait"
  /\ pc' = [pc EXCEPT ![c] = "release"]
  /\ UNCHANGED <<slot, refs, held, key, mine>>

\* Mutant: unlock drops its reference and leaves its token in the channel
UnlockKeepsToken(c) ==
  /\ pc[c] = "holding"
  /\ pc' = [pc EXCEPT ![c] = "release"]
  /\ UNCHANGED <<slot, refs, held, key, mine>>

\* The unlock function, run once: by the caller's defer, or by lockVM itself
\* when the deadline reserve is short after the wait.
Unlock(c) ==
  /\ pc[c] = "holding"
  /\ held' = [held EXCEPT ![mine[c]] = NoCaller]
  /\ pc' = [pc EXCEPT ![c] = "release"]
  /\ UNCHANGED <<slot, refs, key, mine>>

\* Mutant: release() deletes the slot whatever the count
ReleaseAlwaysDeletes(c) ==
  /\ pc[c] = "release"
  /\ refs' = [refs EXCEPT ![mine[c]] = @ - 1]
  /\ slot' = [slot EXCEPT ![key[c]] = NoEntry]
  /\ mine' = [mine EXCEPT ![c] = NoEntry]
  /\ pc' = [pc EXCEPT ![c] = "idle"]
  /\ UNCHANGED <<held, key>>

\* release(): the map slot goes away with the last reference.
Release(c) ==
  /\ pc[c] = "release"
  /\ refs' = [refs EXCEPT ![mine[c]] = @ - 1]
  /\ slot' = [slot EXCEPT ![key[c]] = IF refs[mine[c]] = 1 THEN NoEntry ELSE @]
  /\ mine' = [mine EXCEPT ![c] = NoEntry]
  /\ pc' = [pc EXCEPT ![c] = "idle"]
  /\ UNCHANGED <<held, key>>

Step(c) == \/ Acquire(c)
           \/ Block(c)
           \/ Unlock(c)
           \/ Release(c)

Next == \E c \in Callers :
          \/ \E k \in Keys : EnterNew(c, k) \/ EnterExisting(c, k)
          \/ Step(c)
          \/ Cancel(c)

\* Goroutines are scheduled; a waiter is granted the channel in FIFO order by
\* the Go runtime, which strong fairness of its Acquire abstracts.
Fairness == \A c \in Callers : /\ WF_vars(Block(c) \/ Unlock(c) \/ Release(c))
                               /\ SF_vars(Acquire(c))

Spec == Init /\ [][Next]_vars /\ Fairness

-----------------------------------------------------------------------------
\* One VM never has two storage mutations of one process inside the lock, not
\* even through two generations of its map entry (keyed_mutex.go Lock: "blocks
\* until the caller owns key").
MutualExclusion ==
  \A c, d \in Callers :
    pc[c] = "holding" /\ pc[d] = "holding" /\ key[c] = key[d] => c = d

\* refs is the number of holders, waiters and callers on their way out
\* (keyedMutexEntry.refs: "counts holders and waiters").
RefsExact == \A e \in Entries : refs[e] = Cardinality(Users(e))

\* "an entry exists only while some caller holds or waits for its key, so the
\* map does not grow with the key space" (keyedMutex).
NoIdleSlot == \A k \in Keys : slot[k] # NoEntry =>
                \E c \in Callers : Counted(c) /\ key[c] = k

\* A caller inside Lock comes out of it: it owns the key or it gave up.
LockReturns == \A c \in Callers : pc[c] \in {"select", "wait"} ~>
                                  pc[c] \in {"holding", "idle"}

-----------------------------------------------------------------------------
(* Parts of the inductive invariant.                                        *)

\* The map leads everybody who counts in an entry's refs to that entry.
Reachable == \A c \in Callers : Counted(c) => /\ mine[c] \in Entries
                                              /\ slot[key[c]] = mine[c]

\* A caller outside Lock keeps no pointer.
IdlePointsNowhere == \A c \in Callers : pc[c] = "idle" => mine[c] = NoEntry

\* The token in a channel is the holder's.
TokenIsHolders == \A c \in Callers : pc[c] = "holding" => held[mine[c]] = c

\* Two keys never share an entry.
SlotsDistinct == \A k, l \in Keys :
                   slot[k] # NoEntry /\ slot[k] = slot[l] => k = l

IInv == /\ TypeOK
        /\ Reachable
        /\ IdlePointsNowhere
        /\ TokenIsHolders
        /\ SlotsDistinct
        /\ RefsExact
        /\ NoIdleSlot
=============================================================================
