-------------------------- MODULE MmapCorpusProofs --------------------------
(***************************************************************************)
(* Theorems about MmapCorpus, for any sets of monitors, tracees and keys   *)
(* and any bounds: the lock and what is published, the keys and the        *)
(* refinement, then what the private mirrors of the corpus hold and what   *)
(* the map holds that they maintain, the picks and the lineage of items.   *)
(***************************************************************************)
EXTENDS MmapCorpus, FiniteSetTheorems, SequenceTheorems, WellFoundedInduction, TLAPS

-----------------------------------------------------------------------------
(* What the operators on headers and local entries preserve.               *)

LEMMA SatAddType ==
  ASSUME NEW a \in Counter, NEW b \in Counter
  PROVE  SatAdd(a, b) \in Counter
BY BoundsAssumption DEF SatAdd, Counter

LEMMA FunctionIsSeq ==
  ASSUME NEW S, NEW n \in Nat, NEW f \in [1..n -> S]
  PROVE  f \in Seq(S) /\ Len(f) = n
BY SeqDef

LEMMA FlushToType ==
  ASSUME NEW hdrs \in Seq(Header), NEW snap \in Seq(Entry)
  PROVE  /\ FlushTo(hdrs, snap) \in Seq(Header)
         /\ Len(FlushTo(hdrs, snap)) = Len(hdrs)
         /\ \A i \in 1..Len(hdrs) : FlushTo(hdrs, snap)[i].key = hdrs[i].key
<1>1. ASSUME NEW i \in 1..Len(hdrs)
      PROVE  /\ FlushTo(hdrs, snap)[i] \in Header
             /\ FlushTo(hdrs, snap)[i].key = hdrs[i].key
  <2>1. hdrs[i] \in Header
    OBVIOUS
  <2>2. CASE i <= Len(snap)
    <3>1. snap[i] \in Entry
      BY <2>2
    <3>2. SatAdd(hdrs[i].mut, snap[i].new) \in Counter
      BY <2>1, <3>1, SatAddType DEF Header, Entry
    <3>3. QED
      BY <2>1, <2>2, <3>2 DEF FlushTo, Header
  <2>3. CASE ~(i <= Len(snap))
    BY <2>1, <2>3 DEF FlushTo
  <2>4. QED
    BY <2>2, <2>3
<1>2. FlushTo(hdrs, snap) \in [1..Len(hdrs) -> Header]
  BY <1>1 DEF FlushTo
<1>3. QED
  BY <1>1, <1>2, FunctionIsSeq, Len(hdrs) \in Nat

LEMMA FlushFromType ==
  ASSUME NEW hdrs \in Seq(Header), NEW snap \in Seq(Entry)
  PROVE  FlushFrom(hdrs, snap) \in Seq(Entry)
<1>1. ASSUME NEW i \in 1..Len(snap)
      PROVE  FlushFrom(hdrs, snap)[i] \in Entry
  <2>1. snap[i] \in Entry /\ 0 \in Counter
    BY BoundsAssumption DEF Counter
  <2>2. CASE i <= Len(hdrs)
    <3>1. hdrs[i] \in Header
      BY <2>2
    <3>2. SatAdd(hdrs[i].mut, snap[i].new) \in Counter
      BY <2>1, <3>1, SatAddType DEF Header, Entry
    <3>3. QED
      BY <2>1, <2>2, <3>2 DEF FlushFrom, Entry
  <2>3. CASE ~(i <= Len(hdrs))
    BY <2>1, <2>3 DEF FlushFrom, Entry
  <2>4. QED
    BY <2>2, <2>3
<1>2. FlushFrom(hdrs, snap) \in [1..Len(snap) -> Entry]
  BY <1>1 DEF FlushFrom
<1>3. QED
  BY <1>2, FunctionIsSeq, Len(snap) \in Nat

LEMMA ResetParentType ==
  ASSUME NEW snap \in Seq(Entry), NEW p \in Nat
  PROVE  ResetParent(snap, p) \in Seq(Entry)
<1>1. ASSUME NEW i \in 1..Len(snap)
      PROVE  ResetParent(snap, p)[i] \in Entry
  <2>1. snap[i] \in Entry /\ 0 \in Counter
    BY BoundsAssumption DEF Counter
  <2>2. QED
    BY <2>1 DEF ResetParent, Entry
<1>2. ResetParent(snap, p) \in [1..Len(snap) -> Entry]
  BY <1>1 DEF ResetParent
<1>3. QED
  BY <1>2, FunctionIsSeq, Len(snap) \in Nat

LEMMA CountOffspringType ==
  ASSUME NEW hdrs \in Seq(Header), NEW snap \in Seq(Entry), NEW p \in Nat
  PROVE  /\ CountOffspring(hdrs, snap, p) \in Seq(Header)
         /\ Len(CountOffspring(hdrs, snap, p)) = Len(hdrs)
         /\ \A i \in 1..Len(hdrs) : CountOffspring(hdrs, snap, p)[i].key = hdrs[i].key
<1>1. ASSUME NEW i \in 1..Len(hdrs)
      PROVE  /\ CountOffspring(hdrs, snap, p)[i] \in Header
             /\ CountOffspring(hdrs, snap, p)[i].key = hdrs[i].key
  <2>1. hdrs[i] \in Header
    OBVIOUS
  <2> DEFINE d == hdrs[i].direct + (IF i = p THEN 1 ELSE 0)
             e == hdrs[i].desc + (IF i \in Ancestors(snap, p) THEN 1 ELSE 0)
  <2>2. d \in Nat /\ e \in Nat
    <3>1. hdrs[i].direct \in Nat /\ hdrs[i].desc \in Nat
      BY <2>1 DEF Header
    <3>2. \A n \in Nat : n + 1 \in Nat /\ n + 0 \in Nat
      OBVIOUS
    <3>3. CASE i = p /\ i \in Ancestors(snap, p)
      BY <3>1, <3>2, <3>3
    <3>4. CASE i = p /\ i \notin Ancestors(snap, p)
      BY <3>1, <3>2, <3>4
    <3>5. CASE i # p /\ i \in Ancestors(snap, p)
      BY <3>1, <3>2, <3>5
    <3>6. CASE i # p /\ i \notin Ancestors(snap, p)
      BY <3>1, <3>2, <3>6
    <3>7. QED
      BY <3>3, <3>4, <3>5, <3>6
  <2>3. CountOffspring(hdrs, snap, p)[i] = [hdrs[i] EXCEPT !.direct = d, !.desc = e]
    BY DEF CountOffspring
  <2> HIDE DEF d, e
  <2>4. QED
    BY <2>1, <2>2, <2>3 DEF Header
<1>2. CountOffspring(hdrs, snap, p) \in [1..Len(hdrs) -> Header]
  BY <1>1 DEF CountOffspring
<1>3. QED
  BY <1>1, <1>2, FunctionIsSeq, Len(hdrs) \in Nat

LEMMA AncestorDepthType ==
  ASSUME NEW snap \in Seq(Entry), NEW p \in Nat
  PROVE  AncestorDepth(snap, p) \in Nat
<1>1. IsFiniteSet(1..Len(snap))
  BY FS_Interval
<1>2. IsFiniteSet(Ancestors(snap, p))
  BY <1>1, FS_Subset DEF Ancestors
<1>3. IsFiniteSet({a \in Ancestors(snap, p) : snap[a].parent = a})
  BY <1>2, FS_Subset
<1>4. QED
  BY <1>2, <1>3, FS_CardinalityType DEF AncestorDepth

LEMMA SlotType ==
  ASSUME NEW hdrs \in Seq(Header), NEW i
  PROVE  /\ Slot(hdrs, i) \in Header
         /\ i \in 1..Len(hdrs) => Slot(hdrs, i) = hdrs[i]
<1>1. Zeros \in Header
  BY BoundsAssumption DEF Zeros, Header, AnyKey, Counter
<1>2. QED
  BY <1>1 DEF Slot

LEMMA MirrorType ==
  ASSUME NEW hdr \in Header, NEW i \in Nat
  PROVE  Mirror(hdr, i) \in Entry
<1>1. 0 \in Counter
  BY BoundsAssumption DEF Counter
<1>2. QED
  BY <1>1 DEF Mirror, Header, Entry

\* A header laid down at position i makes the list reach at least that far.
LEMMA LayType ==
  ASSUME NEW hdrs \in Seq(Header), NEW i \in Nat \ {0}, NEW h \in Header
  PROVE  /\ Lay(hdrs, i, h) \in Seq(Header)
         /\ Len(Lay(hdrs, i, h)) = IF i > Len(hdrs) THEN i ELSE Len(hdrs)
         /\ Lay(hdrs, i, h)[i] = h
         /\ \A j \in 1..Len(hdrs) : j # i => Lay(hdrs, i, h)[j] = hdrs[j]
<1> DEFINE n == IF i > Len(hdrs) THEN i ELSE Len(hdrs)
<1>1. n \in Nat /\ i \in 1..n /\ Len(hdrs) <= n /\ Len(hdrs) \in Nat
  OBVIOUS
<1>2. Lay(hdrs, i, h) = [j \in 1..n |-> IF j = i THEN h ELSE Slot(hdrs, j)]
  BY DEF Lay
<1> HIDE DEF n
<1>3. Lay(hdrs, i, h) \in [1..n -> Header]
  BY <1>2, SlotType
<1>4. Lay(hdrs, i, h) \in Seq(Header) /\ Len(Lay(hdrs, i, h)) = n
  BY <1>1, <1>3, FunctionIsSeq
<1>5. \A j \in 1..Len(hdrs) : j # i => Lay(hdrs, i, h)[j] = hdrs[j]
  BY <1>1, <1>2, SlotType
<1>6. QED
  BY <1>1, <1>2, <1>4, <1>5 DEF n

LEMMA BlankType == Blank \in Local
<1>1. <<>> \in Seq(Entry)
  BY EmptySeq
<1>2. QED
  BY <1>1, BoundsAssumption DEF Blank, Local

LEMMA InitObjectType ==
  ASSUME items \in Seq(Header), numEntries \in Nat, updatedSeq \in Nat
  PROVE  InitObject \in Local
<1> DEFINE snap == [i \in 1..numEntries |-> Mirror(Slot(items, i), i)]
           seen == {Slot(items, i).key : i \in 1..numEntries}
<1>1. snap \in Seq(Entry)
  <2>1. snap \in [1..numEntries -> Entry]
    BY SlotType, MirrorType
  <2>2. QED
    BY <2>1, FunctionIsSeq
<1>2. seen \in SUBSET AnyKey
  BY SlotType DEF Header
<1>3. CASE UninitSeq = updatedSeq
  BY <1>3, BlankType DEF InitObject
<1>4. CASE UninitSeq # updatedSeq
  <2>1. InitObject = [Blank EXCEPT !.first = TRUE, !.attached = TRUE, !.snapshots = snap,
                        !.seenKeys = seen, !.nextIndex = numEntries, !.nextItem = numEntries,
                        !.lastSeq = updatedSeq]
    BY <1>4 DEF InitObject
  <2> HIDE DEF snap, seen
  <2>2. QED
    BY <1>1, <1>2, <2>1, BlankType DEF Local
<1>5. QED
  BY <1>3, <1>4

-----------------------------------------------------------------------------
(* Control: the types of the control variables and the semaphore.  Nothing   *)
(* here depends on what the map or a mirror contains.                        *)

ControlType ==
  /\ pc \in [Threads -> Places]
  /\ call \in [Threads -> Calls]
  /\ cursor \in [Threads -> Nat] /\ curr \in [Threads -> Nat]
  /\ key \in [Tracees -> Keys \cup {None}]
  /\ used \in [Tracees -> BOOLEAN]
  /\ child \in [Monitors -> Tracees \cup {None}]
  /\ unwanted \in [Monitors -> Nat]
  /\ torn \in [Tracees -> BOOLEAN] /\ split \in BOOLEAN
  /\ nPicks \in Nat /\ nCrashes \in Nat /\ nKills \in Nat /\ nRestarts \in Nat

DataType ==
  /\ items \in Seq(Header) /\ numEntries \in Nat /\ updatedSeq \in Nat
  /\ mem \in [Spaces -> Local]

\* Only a tracee adds items, and it holds the key it adds.
Adding ==
  \A t \in Threads :
    /\ call[t] = "Add" => t \in Tracees /\ key[t] \in Keys
    /\ pc[t] = "publish" => call[t] = "Add"

Locking == pc \in [Threads -> Places] /\ MutualExclusion

\* The semaphore alone: no step lets a second thread in.
LEMMA LockingInit == Init => Locking
BY DEF Init, Locking, MutualExclusion, FreshPc, Places, InSection

LEMMA LockingStep == Locking /\ [Next]_vars => Locking'
<1> SUFFICES ASSUME Locking, [Next]_vars PROVE Locking'
  OBVIOUS
<1> USE DEF Locking, MutualExclusion, InSection, Places
<1>1. ASSUME NEW t \in Threads, CallStep(t) PROVE Locking'
  <2>1. CASE SyncCheck(t)
    BY <2>1 DEF SyncCheck, Enter, Goto, Return
  <2>2. CASE Acquire(t)
    <3>1. /\ corpusLock > 0 /\ corpusLock' = corpusLock - 1
          /\ \E w \in {"held", "sync", "attach"} : pc' = [pc EXCEPT ![t] = w]
      BY <2>2 DEF Acquire, BeginMerge, Goto
    <3>2. QED
      BY <3>1
  <2>3. CASE SyncItem(t)
    BY <2>3 DEF SyncItem
  <2>4. CASE Attach(t)
    BY <2>4 DEF Attach, BeginMerge, Goto
  <2>5. CASE SyncIndex(t)
    BY <2>5 DEF SyncIndex, Goto
  <2>6. CASE SyncEnd(t)
    BY <2>6 DEF SyncEnd, Goto
  <2>7. CASE Release(t)
    BY <2>7 DEF Release, Goto, Return
  <2>8. QED
    BY <1>1, <2>1, <2>2, <2>3, <2>4, <2>5, <2>6, <2>7 DEF CallStep
<1>2. ASSUME NEW c \in Tracees, TraceeStep(c) PROVE Locking'
  <2>0. c \in Threads
    BY DEF Threads, MainThreads
  <2>1. CASE CallStep(c)
    BY <1>1, <2>0, <2>1
  <2>2. CASE CreateInput(c)
    BY <2>0, <2>2 DEF CreateInput, Enter, Goto
  <2>3. CASE GetItem(c)
    BY <2>0, <2>3 DEF GetItem, Enter, Goto
  <2>4. CASE PickItem(c)
    BY <2>0, <2>4 DEF PickItem, Enter, Goto
  <2>5. CASE SyncCounters(c)
    BY <2>0, <2>5 DEF SyncCounters, Enter, Goto
  <2>6. CASE NothingNew(c)
    BY <2>0, <2>6 DEF NothingNew, Goto
  <2>7. CASE \E k \in Keys : FoundCoverage(c, k)
    BY <2>0, <2>7 DEF FoundCoverage, Enter, Goto
  <2>8. CASE AddSeen(c)
    BY <2>0, <2>8 DEF AddSeen, Goto
  <2>9. CASE AddWrite(c)
    <3>1. pc[c] = "held" /\ pc' = [pc EXCEPT ![c] = "publish"] /\ corpusLock' = corpusLock
      BY <2>9 DEF AddWrite, Goto
    <3>2. QED
      BY <2>0, <3>1
  <2>10. CASE AddPublish(c)
    BY <2>0, <2>10 DEF AddPublish, Goto
  <2>11. CASE CountersHeld(c)
    BY <2>0, <2>11 DEF CountersHeld, Goto
  <2>12. CASE CountersNull(c)
    BY <2>0, <2>12 DEF CountersNull, Goto
  <2>13. QED
    BY <1>2, <2>1, <2>2, <2>3, <2>4, <2>5, <2>6, <2>7, <2>8, <2>9, <2>10, <2>11, <2>12 DEF TraceeStep
<1>3. ASSUME NEW m \in Monitors, MonitorStep(m) PROVE Locking'
  <2>0. m \in Threads /\ Tracees \subseteq Threads
    BY DEF Threads, MainThreads
  <2>1. CASE CallStep(m)
    BY <1>1, <2>0, <2>1
  <2>2. CASE \E c \in Tracees : Fork(m, c)
    BY <2>0, <2>2 DEF Fork
  <2>3. CASE \E c \in Tracees : HandleException(m, c)
    BY <2>0, <2>3 DEF HandleException
  <2>4. CASE UnwantedHeld(m)
    BY <2>0, <2>4 DEF UnwantedHeld, Goto
  <2>5. CASE UnwantedNull(m)
    BY <2>0, <2>5 DEF UnwantedNull, Segv
  <2>6. QED
    BY <1>3, <2>1, <2>2, <2>3, <2>4, <2>5 DEF MonitorStep
<1>4. CASE Fault
  <2>0. Tracees \subseteq Threads /\ Monitors \subseteq Threads
    BY DEF Threads, MainThreads
  <2>1. CASE \E c \in Tracees : Crash(c)
    BY <2>0, <2>1 DEF Crash, Goto
  <2>2. CASE \E m \in Monitors, c \in Tracees : Kill(m, c)
    BY <2>0, <2>2 DEF Kill
  <2>3. CASE Restart
    BY <2>3 DEF Restart, FreshPc
  <2>4. QED
    BY <1>4, <2>1, <2>2, <2>3 DEF Fault
<1>5. CASE UNCHANGED vars
  BY <1>5 DEF vars, control
<1>6. ASSUME NEW s \in Printers, StatusStep(s) PROVE Locking'
  <2>0. s \in Threads
    BY DEF Threads, MainThreads
  <2>1. CASE CallStep(s)
    BY <1>1, <2>0, <2>1
  <2>2. CASE PrintStatus(s)
    BY <2>0, <2>2 DEF PrintStatus, Enter, Goto
  <2>3. CASE PrintDecay(s)
    BY <2>0, <2>3 DEF PrintDecay, Segv, Goto
  <2>4. QED
    BY <1>6, <2>1, <2>2, <2>3 DEF StatusStep
<1>7. QED
  BY <1>1, <1>2, <1>3, <1>4, <1>5, <1>6 DEF Next

\* The corpus semaphore admits at most one thread to the map at any time, with
\* any number of threads and tracees and however often tracees crash, are
\* killed inside the section, or the campaign is restarted.
THEOREM LockExcludes == Spec => []MutualExclusion
<1>1. Spec => []Locking
  BY LockingInit, LockingStep, PTL DEF Spec
<1>2. Locking => MutualExclusion
  BY DEF Locking
<1>3. QED
  BY <1>1, <1>2, PTL

-----------------------------------------------------------------------------
(* Control types.                                                          *)

ControlInv == ControlType /\ Adding

LEMMA ControlInit == Init => ControlInv
<1> SUFFICES ASSUME Init PROVE ControlInv
  OBVIOUS
<1>1. /\ pc \in [Threads -> Places] /\ call \in [Threads -> Calls]
      /\ cursor \in [Threads -> Nat] /\ curr \in [Threads -> Nat]
      /\ \A t \in Threads : pc[t] # "publish" /\ call[t] # "Add"
  BY DEF Init, FreshPc, Places, Calls, None
<1>2. QED
  BY <1>1 DEF Init, ControlInv, ControlType, Adding, None

LEMMA ControlCall ==
  ASSUME ControlInv, DataType, NEW t \in Threads, CallStep(t)
  PROVE  ControlInv'
<1> USE DEF ControlInv, ControlType, Adding, Places, Calls, None, history
<1>1. CASE SyncCheck(t)
  BY <1>1 DEF SyncCheck, Enter, Goto, Return
<1>0. /\ Space(t) \in Spaces /\ Object(t) \in Local
  BY DEF Object, Space, Spaces, Threads, MainThreads, DataType
<1>2. ASSUME NEW o \in Local, BeginMerge(t, o), UNCHANGED <<call, key, used, child, unwanted, history>>
      PROVE  ControlInv'
  <2>1. o.nextIndex \in Nat /\ o.nextItem \in Nat
    BY DEF Local
  <2>2. QED
    BY <1>2, <2>1 DEF BeginMerge, Goto
<1>3. CASE Acquire(t)
  <2>1. UNCHANGED <<call, key, used, child, unwanted, history>>
    BY <1>3 DEF Acquire
  <2>2. \/ BeginMerge(t, Object(t))
        \/ UNCHANGED <<cursor, curr>> /\ \E w \in {"held", "attach"} : pc' = [pc EXCEPT ![t] = w]
    BY <1>3 DEF Acquire, Goto
  <2>3. QED
    BY <1>0, <1>2, <2>1, <2>2
<1>4. CASE Attach(t)
  <2>1. [Object(t) EXCEPT !.first = TRUE] \in Local
    BY <1>0 DEF Local
  <2>2. QED
    BY <1>2, <1>4, <2>1 DEF Attach
<1>5. CASE SyncItem(t)
  BY <1>5 DEF SyncItem
<1>6. CASE SyncIndex(t)
  BY <1>6 DEF SyncIndex, Goto
<1>7. CASE SyncEnd(t)
  BY <1>7 DEF SyncEnd, Goto
<1>8. CASE Release(t)
  BY <1>8 DEF Release, Goto, Return
<1>9. QED
  BY <1>1, <1>3, <1>4, <1>5, <1>6, <1>7, <1>8 DEF CallStep

LEMMA ControlTracee ==
  ASSUME ControlInv, DataType, NEW c \in Tracees, TraceeStep(c)
  PROVE  ControlInv'
<1> USE DEF ControlInv, ControlType, Adding, Places, Calls, None, history
<1>0. c \in Threads
  BY DEF Threads, MainThreads
<1>1. CASE CallStep(c)
  BY <1>0, <1>1, ControlCall
<1>2. CASE CreateInput(c)
  BY <1>0, <1>2 DEF CreateInput, Enter, Goto
<1>3. CASE GetItem(c)
  BY <1>0, <1>3 DEF GetItem, Enter, Goto
<1>4. CASE PickItem(c)
  BY <1>0, <1>4 DEF PickItem, Enter, Goto
<1>5. CASE SyncCounters(c)
  BY <1>0, <1>5 DEF SyncCounters, Enter, Goto
<1>6. CASE NothingNew(c)
  BY <1>0, <1>6 DEF NothingNew, Goto
<1>7. CASE \E k \in Keys : FoundCoverage(c, k)
  BY <1>0, <1>7 DEF FoundCoverage, Enter, Goto
<1>8. CASE AddSeen(c)
  BY <1>0, <1>8 DEF AddSeen, Goto
<1>9. CASE AddWrite(c)
  <2>1. /\ call[c] = "Add" /\ pc' = [pc EXCEPT ![c] = "publish"]
        /\ UNCHANGED <<call, cursor, curr, key, used, child, unwanted, history>>
    BY <1>9 DEF AddWrite, Goto
  <2>2. QED
    BY <1>0, <2>1
<1>10. CASE AddPublish(c)
  BY <1>0, <1>10 DEF AddPublish, Goto
<1>11. CASE CountersHeld(c)
  BY <1>0, <1>11 DEF CountersHeld, Goto
<1>12. CASE CountersNull(c)
  BY <1>0, <1>12 DEF CountersNull, Goto
<1>13. QED
  BY <1>1, <1>2, <1>3, <1>4, <1>5, <1>6, <1>7, <1>8, <1>9, <1>10, <1>11, <1>12, TraceeStep(c) DEF TraceeStep

LEMMA ControlMonitor ==
  ASSUME ControlInv, DataType, NEW m \in Monitors, MonitorStep(m)
  PROVE  ControlInv'
<1> USE DEF ControlInv, ControlType, Adding, Places, Calls, None, history
<1>0. m \in Threads /\ m \notin Tracees /\ Tracees \subseteq Threads
  BY ActorsAssumption DEF Threads, MainThreads
<1>1. CASE CallStep(m)
  BY <1>0, <1>1, ControlCall
<1>2. CASE \E c \in Tracees : Fork(m, c)
  BY <1>0, <1>2 DEF Fork
<1>3. ASSUME NEW c \in Tracees, HandleException(m, c) PROVE ControlInv'
  <2>1. mem[c].lastItem \in Nat
    BY DEF DataType, Spaces, Local
  <2>2. unwanted' \in [Monitors -> Nat]
    BY <1>3, <2>1 DEF HandleException
  <2>3. QED
    BY <1>0, <1>3, <2>2 DEF HandleException, Reap
<1>4. CASE UnwantedHeld(m)
  <2>1. /\ pc' = [pc EXCEPT ![m] = "unlock"] /\ unwanted' = [unwanted EXCEPT ![m] = 0]
        /\ UNCHANGED <<call, cursor, curr, key, used, child, history>>
    BY <1>4 DEF UnwantedHeld, Goto
  <2>2. QED
    BY <1>0, <2>1
<1>5. CASE UnwantedNull(m)
  BY <1>0, <1>5 DEF UnwantedNull, Segv
<1>6. QED
  BY <1>1, <1>2, <1>3, <1>4, <1>5, MonitorStep(m) DEF MonitorStep

LEMMA ControlStatus ==
  ASSUME ControlInv, DataType, NEW s \in Printers, StatusStep(s)
  PROVE  ControlInv'
<1> USE DEF ControlInv, ControlType, Adding, Places, Calls, None, history
<1>0. s \in Threads
  BY DEF Threads, MainThreads
<1>1. CASE CallStep(s)
  BY <1>0, <1>1, ControlCall
<1>2. CASE PrintStatus(s)
  BY <1>0, <1>2 DEF PrintStatus, Enter, Goto
<1>3. CASE PrintDecay(s)
  BY <1>0, <1>3 DEF PrintDecay, Segv, Goto
<1>4. QED
  BY <1>1, <1>2, <1>3, StatusStep(s) DEF StatusStep

LEMMA ControlFault ==
  ASSUME ControlInv, Fault
  PROVE  ControlInv'
<1> USE DEF ControlInv, ControlType, Adding, Places, Calls, None
<1>0. Tracees \subseteq Threads /\ Monitors \subseteq Threads /\ Monitors \cap Tracees = {}
  BY ActorsAssumption DEF Threads, MainThreads
<1>1. CASE \E c \in Tracees : Crash(c)
  BY <1>0, <1>1 DEF Crash, Goto
<1>2. CASE \E m \in Monitors, c \in Tracees : Kill(m, c)
  BY <1>0, <1>2 DEF Kill, Reap
<1>3. CASE Restart
  BY <1>3 DEF Restart, FreshPc
<1>4. QED
  BY <1>1, <1>2, <1>3, Fault DEF Fault

-----------------------------------------------------------------------------
(* Index and pointer.  As long as no tracee was forked between the two stores *)
(* that end SyncInner, next_item_index and next_item of an object agree, but  *)
(* for the thread that is between them, and who adds an item has them at the  *)
(* end of the map.                                                            *)

Gone == {"segv", "crashed", "dead"}

\* An adder that has merged: nothing is published before its own item is.
Checked(c) ==
  \/ pc[c] = "held" /\ call[c] = "Add"
  \/ pc[c] = "publish"

Agree(s) == mem[s].nextItem = mem[s].nextIndex

Aligned ==
  /\ ~split
  /\ \A s \in Spaces : mem[s].nextIndex <= numEntries
  /\ \A t \in Threads :
       \/ pc[t] \in Gone \/ Agree(Space(t))
       \/ \E u \in Threads : Space(u) = Space(t) /\ pc[u] = "pointer"
  /\ \A t \in Threads : pc[t] \in {"sync", "pointer"} => curr[t] = cursor[t] /\ cursor[t] <= numEntries
  /\ \A t \in Threads : pc[t] = "pointer" => cursor[t] = numEntries /\ mem[Space(t)].nextIndex = numEntries
  /\ \A c \in Tracees : Checked(c) => mem[c].nextIndex = numEntries

LEMMA AlignedInit == Init => Aligned
<1> SUFFICES ASSUME Init PROVE Aligned
  OBVIOUS
<1>1. \A t \in Threads : pc[t] \in {"spawn", "idle", "dead"}
  BY DEF Init, FreshPc
<1>2. numEntries = 0 /\ ~split /\ Tracees \subseteq Threads /\ \A t \in Threads : Space(t) \in Spaces
  BY DEF Init, Threads, MainThreads, Space, Spaces
<1>3. \A s \in Spaces : mem[s].nextIndex = 0 /\ mem[s].nextItem = 0
  BY <1>2 DEF Init, FreshMem, InitObject, Blank
<1>4. QED
  BY <1>1, <1>2, <1>3 DEF Aligned, Agree, Checked

\* A step that moves no extent and brings no thread to the end of SyncInner.
LEMMA AlignedFrame ==
  ASSUME Aligned, ~split', numEntries' = numEntries,
         \A s \in Spaces : mem'[s].nextIndex = mem[s].nextIndex /\ mem'[s].nextItem = mem[s].nextItem,
         \A t \in Threads : pc'[t] \in {"sync", "pointer"} =>
            pc'[t] = pc[t] /\ cursor'[t] = cursor[t] /\ curr'[t] = curr[t],
         \A t \in Threads : pc[t] \in Gone => pc'[t] \in Gone,
         \A t, u \in Threads :
            pc[u] = "pointer" /\ Space(u) = Space(t) => pc'[u] = "pointer" \/ pc'[t] \in Gone,
         \A c \in Tracees : Checked(c)' => Checked(c)
  PROVE  Aligned'
<1>1. Tracees \subseteq Spaces /\ \A t \in Threads : Space(t) \in Spaces
  BY DEF Threads, MainThreads, Space, Spaces
<1>2. \A s \in Spaces : Agree(s)' = Agree(s)
  BY DEF Agree
<1>3. \A t \in Threads :
         \/ pc'[t] \in Gone \/ Agree(Space(t))'
         \/ \E u \in Threads : Space(u) = Space(t) /\ pc'[u] = "pointer"
  BY <1>1, <1>2 DEF Aligned
<1>4. \A c \in Tracees : Checked(c)' => mem'[c].nextIndex = numEntries'
  BY <1>1 DEF Aligned
<1>5. QED
  BY <1>1, <1>3, <1>4 DEF Aligned, Space

\* The steps that move the extents of one object, where no other thread of its
\* process is inside the section.
LEMMA AlignedOne ==
  ASSUME Aligned, ~split', numEntries' = numEntries, NEW s \in Spaces,
         \A r \in Spaces : r # s => mem'[r] = mem[r],
         mem'[s].nextIndex <= numEntries,
         \A t \in Threads : Space(t) # s => pc'[t] = pc[t] /\ cursor'[t] = cursor[t] /\ curr'[t] = curr[t],
         \A c \in Tracees : c # s => call'[c] = call[c],
         \A t \in Threads : Space(t) = s =>
            /\ \/ pc'[t] \in Gone \/ Agree(s)'
               \/ \E u \in Threads : Space(u) = s /\ pc'[u] = "pointer"
            /\ pc'[t] \in {"sync", "pointer"} => curr'[t] = cursor'[t] /\ cursor'[t] <= numEntries
            /\ pc'[t] = "pointer" => cursor'[t] = numEntries /\ mem'[s].nextIndex = numEntries,
         s \in Tracees /\ Checked(s)' => mem'[s].nextIndex = numEntries
  PROVE  Aligned'
<1>1. /\ Tracees \subseteq Spaces /\ Tracees \subseteq Threads
      /\ \A t \in Threads : Space(t) \in Spaces
      /\ \A c \in Tracees : Space(c) = c
  BY DEF Threads, MainThreads, Space, Spaces
<1>2. \A r \in Spaces : r # s => Agree(r)' = Agree(r)
  BY DEF Agree
<1>3. ASSUME NEW t \in Threads
      PROVE  \/ pc'[t] \in Gone \/ Agree(Space(t))'
             \/ \E u \in Threads : Space(u) = Space(t) /\ pc'[u] = "pointer"
  <2>1. CASE Space(t) = s
    BY <2>1
  <2>2. CASE Space(t) # s
    BY <1>1, <1>2, <2>2 DEF Aligned
  <2>3. QED
    BY <2>1, <2>2
<1>4. \A r \in Spaces : mem'[r].nextIndex <= numEntries'
  BY DEF Aligned
<1>5. \A t \in Threads : pc'[t] \in {"sync", "pointer"} => curr'[t] = cursor'[t] /\ cursor'[t] <= numEntries'
  BY DEF Aligned
<1>6. \A t \in Threads : pc'[t] = "pointer" => cursor'[t] = numEntries' /\ mem'[Space(t)].nextIndex = numEntries'
  <2> SUFFICES ASSUME NEW t \in Threads, pc'[t] = "pointer"
               PROVE  cursor'[t] = numEntries' /\ mem'[Space(t)].nextIndex = numEntries'
    OBVIOUS
  <2>1. CASE Space(t) = s
    BY <2>1
  <2>2. CASE Space(t) # s
    BY <1>1, <2>2 DEF Aligned
  <2>3. QED
    BY <2>1, <2>2
<1>7. ASSUME NEW c \in Tracees, Checked(c)' PROVE mem'[c].nextIndex = numEntries'
  <2>1. CASE c = s
    BY <1>7, <2>1
  <2>2. CASE c # s
    <3>1. Checked(c)
      BY <1>1, <1>7, <2>2 DEF Checked
    <3>2. QED
      BY <1>1, <2>2, <3>1 DEF Aligned
  <2>3. QED
    BY <2>1, <2>2
<1>8. QED
  BY <1>3, <1>4, <1>5, <1>6, <1>7 DEF Aligned, Space

LEMMA AlignedMerge ==
  ASSUME Aligned, DataType, ControlType, Locking, ~split', NEW t \in Threads, NEW o \in Local,
         BeginMerge(t, o), o.nextItem = o.nextIndex, o.nextIndex <= numEntries,
         UNCHANGED <<numEntries, call>>, \A u \in Threads : InSection(u) => u = t
  PROVE  Aligned'
<1> DEFINE s == Space(t)
<1>1. /\ s \in Spaces /\ Tracees \subseteq Threads /\ mem \in [Spaces -> Local]
      /\ pc \in [Threads -> Places] /\ cursor \in [Threads -> Nat] /\ curr \in [Threads -> Nat]
  BY DEF Space, Spaces, Threads, MainThreads, DataType, ControlType
<1>2. /\ mem' = [mem EXCEPT ![s] = [o EXCEPT !.lastSeq = updatedSeq]]
      /\ pc' = [pc EXCEPT ![t] = "sync"]
      /\ cursor' = [cursor EXCEPT ![t] = o.nextIndex] /\ curr' = [curr EXCEPT ![t] = o.nextItem]
  BY DEF BeginMerge, Goto
<1>3. /\ mem'[s].nextIndex = o.nextIndex /\ mem'[s].nextItem = o.nextItem
      /\ \A r \in Spaces : r # s => mem'[r] = mem[r]
  BY <1>1, <1>2 DEF Local
<1>4. Agree(s)'
  BY <1>3 DEF Agree
<1>5. \A u \in Threads : u # t => pc'[u] = pc[u] /\ pc[u] \notin {"sync", "pointer"}
  BY <1>1, <1>2 DEF InSection
<1>6. pc'[t] = "sync" /\ curr'[t] = cursor'[t] /\ cursor'[t] <= numEntries
  BY <1>1, <1>2
<1>7. ~(s \in Tracees /\ Checked(s)')
  <2>1. s \in Tracees => s = t
    BY ActorsAssumption DEF Space
  <2>2. QED
    BY <1>6, <2>1 DEF Checked
<1> HIDE DEF s
<1>8. \A u \in Threads : u # t => cursor'[u] = cursor[u] /\ curr'[u] = curr[u]
  BY <1>1, <1>2
<1>9. QED
  BY <1>1, <1>3, <1>4, <1>5, <1>6, <1>7, <1>8, AlignedOne DEF s

LEMMA AlignedCall ==
  ASSUME Aligned, DataType, ControlType, Locking, ~split', NEW t \in Threads, CallStep(t)
  PROVE  Aligned'
<1> DEFINE s == Space(t)
<1>1. /\ s \in Spaces /\ Tracees \subseteq Threads /\ mem \in [Spaces -> Local] /\ mem[s] \in Local
      /\ pc \in [Threads -> Places] /\ cursor \in [Threads -> Nat] /\ curr \in [Threads -> Nat]
      /\ call \in [Threads -> Calls] /\ numEntries \in Nat
      /\ s \in Tracees => s = t
  BY ActorsAssumption DEF Space, Spaces, Threads, MainThreads, DataType, ControlType
<1>2. ASSUME UNCHANGED <<mem, cursor, curr, numEntries>>,
             pc[t] \notin Gone \cup {"pointer"},
             \E w \in Places \ {"sync", "pointer", "publish"} :
               /\ pc' = [pc EXCEPT ![t] = w]
               /\ w = "held" => call'[t] # "Add",
             \A u \in Threads : u # t => call'[u] = call[u]
      PROVE  Aligned'
  BY <1>1, <1>2, AlignedFrame DEF Checked
<1>3. InSection(t) => \A u \in Threads : InSection(u) => u = t
  BY DEF Locking, MutualExclusion
<1>4. CASE SyncCheck(t)
  <2>1. UNCHANGED <<mem, cursor, curr, numEntries>> /\ pc[t] = "enter"
    BY <1>4 DEF SyncCheck, shared
  <2>2. \E w \in Places \ {"sync", "held", "publish", "pointer"} : pc' = [pc EXCEPT ![t] = w]
    BY <1>4 DEF SyncCheck, Enter, Goto, Return, Places
  <2>3. \A u \in Threads : u # t => call'[u] = call[u]
    BY <1>1, <1>4 DEF SyncCheck, Enter, Goto
  <2>4. QED
    BY <1>2, <2>1, <2>2, <2>3 DEF Gone
<1>5. CASE Acquire(t)
  <2>1. /\ pc[t] = "wait" /\ UNCHANGED <<numEntries, call>>
        /\ \A u \in Threads : ~InSection(u)
    BY <1>5 DEF Acquire, shared, Locking, MutualExclusion
  <2>2. mem[s].nextItem = mem[s].nextIndex /\ mem[s].nextIndex <= numEntries
    BY <1>1, <2>1 DEF Aligned, Agree, Gone, InSection
  <2>3. CASE call[t] \in {"SyncCounters", "IncUnwanted"}
    <3>1. UNCHANGED <<mem, cursor, curr, numEntries, call>> /\ pc' = [pc EXCEPT ![t] = "held"]
      BY <1>5, <2>3 DEF Acquire, Goto, shared
    <3>2. QED
      BY <1>2, <2>1, <2>3, <3>1 DEF Gone, Places
  <2>4. CASE call[t] \notin {"SyncCounters", "IncUnwanted"} /\ Object(t).attached
    <3>1. BeginMerge(t, mem[s])
      BY <1>5, <2>4 DEF Acquire, Object
    <3>2. QED
      BY <1>1, <2>1, <2>2, <3>1, AlignedMerge
  <2>5. CASE call[t] \notin {"SyncCounters", "IncUnwanted"} /\ ~Object(t).attached
    <3>1. /\ mem' = [mem EXCEPT ![s] = [mem[s] EXCEPT !.attached = TRUE, !.snapshots = <<>>,
                                                      !.nextIndex = 0, !.nextItem = 0]]
          /\ pc' = [pc EXCEPT ![t] = "attach"] /\ UNCHANGED <<cursor, curr>>
      BY <1>1, <1>5, <2>5 DEF Acquire, Goto, Object, Local
    <3>2. /\ mem'[s].nextIndex = 0 /\ mem'[s].nextItem = 0
          /\ \A r \in Spaces : r # s => mem'[r] = mem[r]
      BY <1>1, <3>1 DEF Local
    <3>3. Agree(s)' /\ mem'[s].nextIndex <= numEntries
      BY <1>1, <3>2 DEF Agree
    <3>4. \A u \in Threads : pc'[u] \notin {"sync", "pointer"} /\ (Space(u) # s => pc'[u] = pc[u])
      BY <1>1, <2>1, <3>1 DEF InSection
    <3>5. ~(s \in Tracees /\ Checked(s)')
      BY <1>1, <3>1 DEF Checked
    <3> HIDE DEF s
    <3>6. QED
      BY <1>1, <2>1, <3>1, <3>2, <3>3, <3>4, <3>5, AlignedOne
  <2>6. QED
    BY <2>3, <2>4, <2>5
<1>6. CASE Attach(t)
  <2>1. pc[t] = "attach" /\ UNCHANGED <<numEntries, call>> /\ BeginMerge(t, [mem[s] EXCEPT !.first = TRUE])
    BY <1>6 DEF Attach, shared, Object
  <2>2. \A u \in Threads : InSection(u) => u = t
    BY <1>3, <2>1 DEF InSection
  <2>3. mem[s].nextItem = mem[s].nextIndex /\ mem[s].nextIndex <= numEntries
    BY <1>1, <2>1, <2>2 DEF Aligned, Agree, Gone, InSection
  <2> DEFINE o == [mem[s] EXCEPT !.first = TRUE]
  <2>4. o \in Local /\ o.nextIndex = mem[s].nextIndex /\ o.nextItem = mem[s].nextItem
    BY <1>1 DEF Local
  <2>5. BeginMerge(t, o)
    BY <2>1
  <2> HIDE DEF o
  <2>6. QED
    BY <2>1, <2>2, <2>3, <2>4, <2>5, AlignedMerge
<1>7. CASE SyncItem(t)
  <2>1. /\ pc[t] = "sync" /\ cursor[t] < numEntries /\ UNCHANGED <<numEntries, pc, call>>
        /\ cursor' = [cursor EXCEPT ![t] = cursor[t] + 1] /\ curr' = [curr EXCEPT ![t] = curr[t] + 1]
    BY <1>1, <1>7 DEF SyncItem, shared
  <2>2. \A r \in Spaces : /\ mem'[r].nextIndex = mem[r].nextIndex /\ mem'[r].nextItem = mem[r].nextItem
                          /\ r # s => mem'[r] = mem[r]
    BY <1>1, <1>7 DEF SyncItem, Local
  <2>3. curr[t] = cursor[t] /\ cursor[t] + 1 <= numEntries
    BY <1>1, <2>1 DEF Aligned
  <2>4. \A u \in Threads : InSection(u) => u = t
    BY <1>3, <2>1 DEF InSection
  <2>5. \A u \in Threads : u # t => pc[u] \notin {"sync", "pointer"}
    BY <2>4 DEF InSection
  <2>6. Agree(s)' /\ mem'[s].nextIndex <= numEntries
    BY <1>1, <2>1, <2>2, <2>5 DEF Aligned, Agree, Gone
  <2>7. ~(s \in Tracees /\ Checked(s)')
    BY <1>1, <2>1 DEF Checked
  <2>8. curr'[t] = cursor'[t] /\ cursor'[t] <= numEntries
    BY <1>1, <2>1, <2>3
  <2>9. \A u \in Threads : u # t => cursor'[u] = cursor[u] /\ curr'[u] = curr[u]
    BY <1>1, <2>1
  <2>10. Space(t) = s
    OBVIOUS
  <2> HIDE DEF s
  <2>11. QED
    BY <1>1, <2>1, <2>2, <2>5, <2>6, <2>7, <2>8, <2>9, <2>10, AlignedOne
<1>8. CASE SyncIndex(t)
  <2>1. /\ pc[t] = "sync" /\ cursor[t] >= numEntries /\ UNCHANGED <<numEntries, call, cursor, curr>>
        /\ pc' = [pc EXCEPT ![t] = "pointer"]
    BY <1>8 DEF SyncIndex, Goto, shared
  <2>2. curr[t] = cursor[t] /\ cursor[t] = numEntries
    BY <1>1, <2>1 DEF Aligned
  <2>3. mem'[s].nextIndex = numEntries /\ \A r \in Spaces : r # s => mem'[r] = mem[r]
    BY <1>1, <1>8, <2>2 DEF SyncIndex, Local
  <2>4. \A u \in Threads : InSection(u) => u = t
    BY <1>3, <2>1 DEF InSection
  <2>5. \A u \in Threads : u # t => pc'[u] = pc[u] /\ pc[u] \notin {"sync", "pointer"}
    BY <1>1, <2>1, <2>4 DEF InSection
  <2>6. pc'[t] = "pointer"
    BY <1>1, <2>1
  <2>7. ~(s \in Tracees /\ Checked(s)')
    BY <1>1, <2>6 DEF Checked
  <2>8. Space(t) = s
    OBVIOUS
  <2> HIDE DEF s
  <2>9. QED
    BY <1>1, <2>1, <2>2, <2>3, <2>5, <2>6, <2>7, <2>8, AlignedOne
<1>9. CASE SyncEnd(t)
  <2>1. /\ pc[t] = "pointer" /\ UNCHANGED <<numEntries, call>>
        /\ \E w \in {"held", "unlock"} : pc' = [pc EXCEPT ![t] = w]
        /\ \A u \in Threads : u # t => cursor'[u] = cursor[u] /\ curr'[u] = curr[u]
    BY <1>1, <1>9 DEF SyncEnd, Goto
  <2>2. curr[t] = numEntries /\ mem[s].nextIndex = numEntries
    BY <1>1, <2>1 DEF Aligned
  <2>3. /\ mem'[s].nextIndex = numEntries /\ mem'[s].nextItem = numEntries
        /\ \A r \in Spaces : r # s => mem'[r] = mem[r]
    <3> DEFINE snap == FlushFrom(items, mem[s].snapshots)
    <3>1. mem' = [mem EXCEPT ![s] = [mem[s] EXCEPT !.nextItem = curr[t], !.snapshots = snap]]
      BY <1>1, <1>9 DEF SyncEnd, Local
    <3> HIDE DEF snap
    <3>2. QED
      BY <1>1, <2>2, <3>1 DEF Local
  <2>4. \A u \in Threads : InSection(u) => u = t
    BY <1>3, <2>1 DEF InSection
  <2>5. \A u \in Threads : pc'[u] \notin {"sync", "pointer"} /\ (u # t => pc'[u] = pc[u])
    BY <1>1, <2>1, <2>4 DEF InSection
  <2>6. Agree(s)' /\ mem'[s].nextIndex <= numEntries
    BY <1>1, <2>3 DEF Agree
  <2>7. Space(t) = s
    OBVIOUS
  <2> HIDE DEF s
  <2>8. QED
    BY <1>1, <2>1, <2>3, <2>5, <2>6, <2>7, AlignedOne
<1>10. CASE Release(t)
  <2>1. UNCHANGED <<mem, cursor, curr, numEntries>> /\ pc[t] = "unlock"
    BY <1>10 DEF Release, shared
  <2>2. \E w \in Places \ {"sync", "held", "publish", "pointer"} : pc' = [pc EXCEPT ![t] = w]
    BY <1>10 DEF Release, Goto, Return, Places
  <2>3. \A u \in Threads : u # t => call'[u] = call[u]
    BY <1>1, <1>10 DEF Release, Goto
  <2>4. QED
    BY <1>2, <2>1, <2>2, <2>3 DEF Gone
<1>11. QED
  BY <1>4, <1>5, <1>6, <1>7, <1>8, <1>9, <1>10, CallStep(t) DEF CallStep

LEMMA AlignedAddPublish ==
  ASSUME Aligned, DataType, ControlType, Locking, ~split', NEW c \in Tracees, AddPublish(c)
  PROVE  Aligned'
<1>1. /\ c \in Threads /\ c \in Spaces /\ mem \in [Spaces -> Local] /\ mem[c] \in Local
      /\ Tracees \subseteq Spaces /\ Tracees \subseteq Threads
      /\ pc \in [Threads -> Places] /\ numEntries \in Nat
      /\ \A t \in Threads : Space(t) \in Spaces /\ (Space(t) = c => t = c)
  BY ActorsAssumption DEF Threads, MainThreads, Space, Spaces, DataType, ControlType
<1>2. /\ pc[c] = "publish" /\ pc' = [pc EXCEPT ![c] = "unlock"] /\ numEntries' = numEntries + 1
      /\ UNCHANGED <<call, cursor, curr>>
  BY DEF AddPublish, Goto
<1>3. /\ mem'[c].nextIndex = numEntries + 1 /\ mem'[c].nextItem = mem[c].nextItem + 1
      /\ \A r \in Spaces : r # c => mem'[r] = mem[r]
  BY <1>1 DEF AddPublish, Local
<1>4. \A t \in Threads : InSection(t) => t = c
  BY <1>1, <1>2 DEF Locking, MutualExclusion, InSection
<1>5. \A t \in Threads : pc'[t] \notin {"sync", "pointer", "publish", "held"} /\ (t # c => pc'[t] = pc[t])
  BY <1>1, <1>2, <1>4 DEF InSection
<1>6. \A t \in Threads : pc[t] # "pointer"
  BY <1>2, <1>4 DEF InSection
<1>7. Agree(c) /\ mem[c].nextIndex = numEntries
  BY <1>1, <1>2, <1>6 DEF Aligned, Gone, Checked, Space
<1>8. Agree(c)'
  BY <1>3, <1>7 DEF Agree
<1>9. ASSUME NEW t \in Threads, pc'[t] \notin Gone PROVE Agree(Space(t))'
  <2>1. CASE t = c
    BY <1>8, <2>1 DEF Space
  <2>2. CASE t # c
    <3>1. Agree(Space(t)) /\ Space(t) # c
      BY <1>1, <1>5, <1>6, <1>9, <2>2 DEF Aligned
    <3>2. QED
      BY <1>1, <1>3, <3>1 DEF Agree
  <2>3. QED
    BY <2>1, <2>2
<1>10. \A r \in Spaces : mem'[r].nextIndex <= numEntries + 1
  <2> TAKE r \in Spaces
  <2>1. mem[r].nextIndex \in Nat /\ mem[r].nextIndex <= numEntries
    BY <1>1 DEF Aligned, Local
  <2>2. QED
    BY <1>1, <1>3, <2>1
<1>11. \A d \in Tracees : ~Checked(d)'
  BY <1>1, <1>5 DEF Checked
<1>12. QED
  BY <1>2, <1>5, <1>9, <1>10, <1>11 DEF Aligned, Space

LEMMA AlignedTracee ==
  ASSUME Aligned, DataType, ControlType, Locking, ~split', NEW c \in Tracees, TraceeStep(c)
  PROVE  Aligned'
<1>1. /\ c \in Threads /\ c \in Spaces /\ mem \in [Spaces -> Local] /\ mem[c] \in Local
      /\ Tracees \subseteq Threads
      /\ pc \in [Threads -> Places] /\ call \in [Threads -> Calls]
      /\ \A t \in Threads : Space(t) = c => t = c
  BY ActorsAssumption DEF Threads, MainThreads, Space, Spaces, DataType, ControlType
<1>2. CASE CallStep(c)
  BY <1>1, <1>2, AlignedCall
<1>3. CASE AddPublish(c)
  BY <1>3, AlignedAddPublish
<1>4. ASSUME UNCHANGED <<cursor, curr, numEntries>>,
             \E o \in Local : /\ o.nextIndex = mem[c].nextIndex /\ o.nextItem = mem[c].nextItem
                              /\ mem' = [mem EXCEPT ![c] = o],
             pc[c] \notin Gone,
             \E w \in Places \ {"sync", "pointer"} :
               /\ pc' = [pc EXCEPT ![c] = w]
               /\ pc[c] = "pointer" => w = "crashed"
               /\ w = "publish" => Checked(c)
               /\ w = "held" => call'[c] # "Add",
             \A d \in Tracees : d # c => call'[d] = call[d]
      PROVE  Aligned'
  <2>1. \A s \in Spaces : mem'[s].nextIndex = mem[s].nextIndex /\ mem'[s].nextItem = mem[s].nextItem
    BY <1>1, <1>4
  <2>2. PICK w \in Places \ {"sync", "pointer"} :
               /\ pc' = [pc EXCEPT ![c] = w]
               /\ pc[c] = "pointer" => w = "crashed"
               /\ w = "publish" => Checked(c)
               /\ w = "held" => call'[c] # "Add"
    BY <1>4
  <2>3. \A d \in Tracees : Checked(d)' => Checked(d)
    BY <1>1, <1>4, <2>2 DEF Checked
  <2>4. \A t \in Threads : pc[t] \in Gone => pc'[t] \in Gone
    BY <1>1, <1>4, <2>2
  <2>5. \A t, u \in Threads :
            pc[u] = "pointer" /\ Space(u) = Space(t) => pc'[u] = "pointer" \/ pc'[t] \in Gone
    <3> SUFFICES ASSUME NEW t \in Threads, NEW u \in Threads, pc[u] = "pointer", Space(u) = Space(t)
                 PROVE  pc'[u] = "pointer" \/ pc'[t] \in Gone
      OBVIOUS
    <3>1. CASE u # c
      BY <1>1, <2>2, <3>1
    <3>2. CASE u = c
      <4>1. t = c
        BY <1>1, <3>2 DEF Space
      <4>2. QED
        BY <1>1, <2>2, <3>2, <4>1 DEF Gone
    <3>3. QED
      BY <3>1, <3>2
  <2>6. QED
    BY <1>1, <1>4, <2>1, <2>2, <2>3, <2>4, <2>5, AlignedFrame
<1>5. mem' = mem => \E o \in Local : /\ o.nextIndex = mem[c].nextIndex /\ o.nextItem = mem[c].nextItem
                                     /\ mem' = [mem EXCEPT ![c] = o]
  BY <1>1
<1>6. CASE CreateInput(c) \/ GetItem(c) \/ SyncCounters(c)
  <2>1. UNCHANGED <<mem, cursor, curr, numEntries>> /\ pc[c] = "loop"
    BY <1>6 DEF CreateInput, GetItem, SyncCounters, shared
  <2>2. \E w \in {"target", "pick", "wait", "enter"}, l \in Calls :
          pc' = [pc EXCEPT ![c] = w] /\ call' = [call EXCEPT ![c] = l]
    BY <1>6 DEF CreateInput, GetItem, SyncCounters, Enter, Goto, Calls
  <2>3. \A d \in Tracees : d # c => call'[d] = call[d]
    BY <1>1, <2>2
  <2>4. /\ pc[c] \notin Gone
        /\ \E w \in Places \ {"sync", "pointer"} :
             /\ pc' = [pc EXCEPT ![c] = w]
             /\ pc[c] = "pointer" => w = "crashed"
             /\ w = "publish" => Checked(c)
             /\ w = "held" => call'[c] # "Add"
    <3>1. PICK w \in {"target", "pick", "wait", "enter"} : pc' = [pc EXCEPT ![c] = w]
      BY <2>2
    <3>2. w \in Places \ {"sync", "pointer"} /\ w # "publish" /\ w # "held"
      BY DEF Places
    <3>3. QED
      BY <2>1, <3>1, <3>2 DEF Gone
  <2>5. QED
    BY <1>4, <1>5, <2>1, <2>3, <2>4
<1>7. CASE NothingNew(c) \/ AddSeen(c)
  <2>1. /\ UNCHANGED <<mem, cursor, curr, call, numEntries>> /\ pc[c] \in {"target", "held"}
        /\ \E w \in {"loop", "unlock"} : pc' = [pc EXCEPT ![c] = w]
    BY <1>7 DEF NothingNew, AddSeen, Goto, shared
  <2>2. /\ pc[c] \notin Gone
        /\ \E w \in Places \ {"sync", "pointer"} :
             /\ pc' = [pc EXCEPT ![c] = w]
             /\ pc[c] = "pointer" => w = "crashed"
             /\ w = "publish" => Checked(c)
             /\ w = "held" => call'[c] # "Add"
    <3>1. PICK w \in {"loop", "unlock"} : pc' = [pc EXCEPT ![c] = w]
      BY <2>1
    <3>2. w \in Places \ {"sync", "pointer"} /\ w # "publish" /\ w # "held"
      BY DEF Places
    <3>3. QED
      BY <2>1, <3>1, <3>2 DEF Gone
  <2>3. \A d \in Tracees : d # c => call'[d] = call[d]
    BY <2>1
  <2>4. QED
    BY <1>4, <1>5, <2>1, <2>2, <2>3
<1>8. CASE \E k \in Keys : FoundCoverage(c, k)
  <2>1. PICK k \in Keys : FoundCoverage(c, k)
    BY <1>8
  <2>2. /\ UNCHANGED <<mem, cursor, curr, numEntries>> /\ pc[c] = "target"
        /\ \E w \in {"loop", "wait"} : pc' = [pc EXCEPT ![c] = w]
        /\ \A d \in Tracees : d # c => call'[d] = call[d]
    BY <1>1, <2>1 DEF FoundCoverage, Enter, Goto, shared
  <2>3. QED
    BY <1>4, <1>5, <2>2 DEF Gone, Places
<1>9. CASE CountersNull(c)
  <2>1. /\ UNCHANGED <<mem, cursor, curr, call, numEntries>> /\ pc[c] \in {"pointer", "held"}
        /\ pc' = [pc EXCEPT ![c] = "crashed"]
    BY <1>9 DEF CountersNull, Goto, shared
  <2>2. /\ pc[c] \notin Gone
        /\ \E w \in Places \ {"sync", "pointer"} :
             /\ pc' = [pc EXCEPT ![c] = w]
             /\ pc[c] = "pointer" => w = "crashed"
             /\ w = "publish" => Checked(c)
             /\ w = "held" => call'[c] # "Add"
    <3>1. "crashed" \in Places \ {"sync", "pointer"}
      BY DEF Places
    <3>2. pc[c] \notin Gone
      BY <2>1 DEF Gone
    <3>3. QED
      BY <2>1, <3>1, <3>2
  <2>3. \A d \in Tracees : d # c => call'[d] = call[d]
    BY <2>1
  <2>4. QED
    BY <1>4, <1>5, <2>1, <2>2, <2>3
<1>10. CASE AddWrite(c)
  <2>1. /\ UNCHANGED <<cursor, curr, call, numEntries>> /\ pc[c] = "held" /\ call[c] = "Add"
        /\ pc' = [pc EXCEPT ![c] = "publish"]
    BY <1>10 DEF AddWrite, Goto
  <2>2. \A s \in Spaces : mem'[s].nextIndex = mem[s].nextIndex /\ mem'[s].nextItem = mem[s].nextItem
    BY <1>1, <1>10 DEF AddWrite, Local
  <2>3. \A d \in Tracees : Checked(d)' => Checked(d)
    BY <1>1, <2>1 DEF Checked
  <2>4. QED
    BY <1>1, <2>1, <2>2, <2>3, AlignedFrame DEF Gone
<1>11. CASE PickItem(c)
  <2>1. /\ UNCHANGED <<cursor, curr, numEntries>> /\ pc[c] = "pick" /\ pc' = [pc EXCEPT ![c] = "target"]
        /\ \A d \in Tracees : d # c => call'[d] = call[d]
    BY <1>1, <1>11 DEF PickItem, Enter, Goto, shared
  <2>2. \A s \in Spaces : mem'[s].nextIndex = mem[s].nextIndex /\ mem'[s].nextItem = mem[s].nextItem
    <3>1. PICK i \in 1..Len(mem[c].snapshots) :
          mem' = [mem EXCEPT ![c].lastItem = i,
                             ![c].snapshots[i].new = (@ + 1) % (MaxCount + 1)]
      BY <1>11 DEF PickItem
    <3>2. \E snap : mem' = [mem EXCEPT ![c] = [mem[c] EXCEPT !.lastItem = i, !.snapshots = snap]]
      BY <1>1, <3>1 DEF Local
    <3>3. QED
      BY <1>1, <3>2 DEF Local
  <2>3. \A d \in Tracees : Checked(d)' => Checked(d)
    BY <1>1, <2>1 DEF Checked
  <2>4. QED
    BY <1>1, <2>1, <2>2, <2>3, AlignedFrame DEF Gone
<1>12. CASE CountersHeld(c)
  <2>1. /\ UNCHANGED <<cursor, curr, call, numEntries>> /\ pc[c] = "held"
        /\ pc' = [pc EXCEPT ![c] = "unlock"]
    BY <1>12 DEF CountersHeld, Goto
  <2>2. \A s \in Spaces : mem'[s].nextIndex = mem[s].nextIndex /\ mem'[s].nextItem = mem[s].nextItem
    BY <1>1, <1>12 DEF CountersHeld, Local
  <2>3. \A d \in Tracees : Checked(d)' => Checked(d)
    BY <1>1, <2>1 DEF Checked
  <2>4. QED
    BY <1>1, <2>1, <2>2, <2>3, AlignedFrame DEF Gone
<1>13. QED
  BY <1>2, <1>3, <1>6, <1>7, <1>8, <1>9, <1>10, <1>11, <1>12, TraceeStep(c) DEF TraceeStep

\* A tracee that is gone leaves an empty object.
LEMMA AlignedReap ==
  ASSUME Aligned, DataType, ControlType, ~split', NEW m \in Monitors, NEW c \in Tracees,
         mem' = [mem EXCEPT ![c] = Blank], UNCHANGED numEntries, pc[m] = "watch",
         cursor' = [cursor EXCEPT ![c] = 0], curr' = [curr EXCEPT ![c] = 0],
         \E w \in {"enter", "wait", "spawn"} : pc' = [pc EXCEPT ![c] = "dead", ![m] = w],
         \A d \in Tracees : d # c => call'[d] = call[d]
  PROVE  Aligned'
<1>1. /\ m \in Threads /\ m \notin Tracees /\ c \in Threads /\ c \in Spaces /\ Tracees \subseteq Threads
      /\ Tracees \subseteq Spaces
      /\ pc \in [Threads -> Places] /\ mem \in [Spaces -> Local] /\ numEntries \in Nat
      /\ cursor \in [Threads -> Nat] /\ curr \in [Threads -> Nat]
      /\ \A t \in Threads : Space(t) \in Spaces /\ (Space(t) = c => t = c)
  BY ActorsAssumption DEF Threads, MainThreads, Space, Spaces, DataType, ControlType
<1>2. /\ pc'[c] = "dead" /\ pc'[m] \in {"enter", "wait", "spawn"}
      /\ \A t \in Threads : t # m /\ t # c => pc'[t] = pc[t]
  BY <1>1
<1>3. /\ \A r \in Spaces : r # c => mem'[r] = mem[r]
      /\ mem'[c].nextIndex = 0 /\ mem'[c].nextItem = 0
  BY <1>1 DEF Blank
<1>4. Agree(c)' /\ \A r \in Spaces : Agree(r) => Agree(r)'
  BY <1>3 DEF Agree
<1>5. ASSUME NEW t \in Threads
      PROVE  \/ pc'[t] \in Gone \/ Agree(Space(t))'
             \/ \E u \in Threads : Space(u) = Space(t) /\ pc'[u] = "pointer"
  <2>1. CASE t = c
    BY <1>2, <2>1 DEF Gone
  <2>2. CASE t # c
    <3>1. Space(t) # c /\ pc[t] \in Gone => pc'[t] \in Gone
      BY <1>1, <1>2, <2>2 DEF Gone
    <3>2. CASE pc[t] \in Gone
      BY <1>1, <2>2, <3>1, <3>2
    <3>3. CASE Agree(Space(t))
      BY <1>1, <1>4, <3>3
    <3>4. ASSUME NEW u \in Threads, Space(u) = Space(t), pc[u] = "pointer"
          PROVE  pc'[u] = "pointer"
      BY <1>1, <1>2, <2>2, <3>4 DEF Space
    <3>5. QED
      BY <3>2, <3>3, <3>4 DEF Aligned
  <2>3. QED
    BY <2>1, <2>2
<1>6. \A r \in Spaces : mem'[r].nextIndex <= numEntries'
  BY <1>1, <1>3 DEF Aligned
<1>7. \A t \in Threads : pc'[t] \in {"sync", "pointer"} =>
         pc'[t] = pc[t] /\ Space(t) # c /\ cursor'[t] = cursor[t] /\ curr'[t] = curr[t]
  BY <1>1, <1>2
<1>8. /\ \A t \in Threads : pc'[t] \in {"sync", "pointer"} => curr'[t] = cursor'[t] /\ cursor'[t] <= numEntries'
      /\ \A t \in Threads : pc'[t] = "pointer" => cursor'[t] = numEntries' /\ mem'[Space(t)].nextIndex = numEntries'
  BY <1>1, <1>3, <1>7 DEF Aligned
<1>9. \A d \in Tracees : Checked(d)' => Checked(d) /\ d # c
  BY <1>1, <1>2 DEF Checked
<1>10. \A d \in Tracees : Checked(d)' => mem'[d].nextIndex = numEntries'
  BY <1>1, <1>3, <1>9 DEF Aligned
<1>11. QED
  BY <1>5, <1>6, <1>8, <1>10 DEF Aligned, Space

LEMMA AlignedMain ==
  ASSUME Aligned, DataType, ControlType, Locking, ~split',
         \/ \E m \in Monitors : MonitorStep(m)
         \/ \E s \in Printers : StatusStep(s)
  PROVE  Aligned'
<1>1. /\ Main \in Spaces /\ mem \in [Spaces -> Local] /\ mem[Main] \in Local
      /\ Tracees \subseteq Threads /\ Tracees \subseteq Spaces /\ MainThreads \subseteq Threads
      /\ Monitors \subseteq MainThreads /\ Printers \subseteq MainThreads
      /\ pc \in [Threads -> Places] /\ call \in [Threads -> Calls] /\ numEntries \in Nat
      /\ \A t \in Threads : Space(t) \in Spaces
      /\ \A t \in MainThreads : t \notin Tracees /\ Space(t) = Main
      /\ \A c \in Tracees : c # Main /\ Space(c) = c
      /\ \A t \in Threads : t \in Tracees \/ t \in MainThreads
  BY ActorsAssumption DEF Threads, MainThreads, Space, Spaces, DataType, ControlType
<1>2. ASSUME NEW t \in MainThreads, CallStep(t) PROVE Aligned'
  BY <1>1, <1>2, AlignedCall
<1>3. ASSUME Segv, UNCHANGED <<mem, call, cursor, curr, numEntries>> PROVE Aligned'
  <2>1. pc' = [t \in Threads |-> IF t \in MainThreads THEN "segv" ELSE pc[t]]
    BY <1>3 DEF Segv
  <2>2. \A t \in Threads : pc'[t] = IF t \in MainThreads THEN "segv" ELSE pc[t]
    BY <2>1
  <2>3. \A d \in Tracees : Checked(d)' => Checked(d)
    BY <1>1, <1>3, <2>2 DEF Checked
  <2>4. QED
    BY <1>1, <1>3, <2>2, <2>3, AlignedFrame DEF Gone
<1>4. ASSUME NEW m \in Monitors, NEW c \in Tracees, Fork(m, c) PROVE Aligned'
  <2>1. /\ mem' = [mem EXCEPT ![c] = mem[Main]] /\ UNCHANGED <<cursor, curr, numEntries>>
        /\ pc' = [pc EXCEPT ![m] = "watch", ![c] = "enter"] /\ pc[m] = "spawn" /\ pc[c] = "dead"
        /\ call' = [call EXCEPT ![c] = "Sync"]
        /\ mem[Main].nextIndex = mem[Main].nextItem
    BY <1>4 DEF Fork, shared
  <2>2. /\ mem'[c] = mem[Main] /\ \A r \in Spaces : r # c => mem'[r] = mem[r]
    BY <1>1, <2>1
  <2>3. Agree(c)' /\ mem'[c].nextIndex <= numEntries
    BY <1>1, <2>1, <2>2 DEF Agree, Aligned
  <2>4. Agree(Main)'
    BY <1>1, <2>1, <2>2 DEF Agree
  <2>5. /\ pc'[c] = "enter" /\ pc'[m] = "watch" /\ m # c
        /\ \A t \in Threads : t # m /\ t # c => pc'[t] = pc[t]
    BY <1>1, <2>1
  <2>6. ASSUME NEW t \in Threads
        PROVE  \/ pc'[t] \in Gone \/ Agree(Space(t))'
               \/ \E u \in Threads : Space(u) = Space(t) /\ pc'[u] = "pointer"
    <3>1. CASE t = c
      BY <1>1, <2>3, <3>1
    <3>2. CASE t \in MainThreads
      BY <1>1, <2>4, <3>2
    <3>3. CASE t \in Tracees /\ t # c
      <4>1. Space(t) = t /\ t # m /\ pc'[t] = pc[t] /\ \A u \in Threads : Space(u) = t => u = t
        BY <1>1, <2>5, <3>3
      <4>2. \/ pc[t] \in Gone \/ Agree(t) \/ pc[t] = "pointer"
        BY <4>1 DEF Aligned
      <4>3. Agree(t) => Agree(t)'
        BY <1>1, <2>2, <3>3 DEF Agree
      <4>4. QED
        BY <4>1, <4>2, <4>3
    <3>4. QED
      BY <1>1, <3>1, <3>2, <3>3
  <2>7. \A r \in Spaces : mem'[r].nextIndex <= numEntries'
    BY <2>1, <2>2, <2>3 DEF Aligned
  <2>8. \A t \in Threads : pc'[t] \in {"sync", "pointer"} => t # c /\ pc'[t] = pc[t] /\ Space(t) # c
    BY <1>1, <2>5
  <2>9. \A d \in Tracees : Checked(d)' => Checked(d) /\ d # c
    BY <1>1, <2>1, <2>5 DEF Checked
  <2>10. \A d \in Tracees : Checked(d)' => mem'[d].nextIndex = numEntries'
    BY <1>1, <2>1, <2>2, <2>9 DEF Aligned
  <2>11. /\ \A t \in Threads : pc'[t] \in {"sync", "pointer"} => curr'[t] = cursor'[t] /\ cursor'[t] <= numEntries'
         /\ \A t \in Threads : pc'[t] = "pointer" => cursor'[t] = numEntries' /\ mem'[Space(t)].nextIndex = numEntries'
    BY <1>1, <2>1, <2>2, <2>8 DEF Aligned
  <2>12. QED
    BY <2>6, <2>7, <2>10, <2>11 DEF Aligned, Space
<1>5. ASSUME NEW m \in Monitors, NEW c \in Tracees, HandleException(m, c) PROVE Aligned'
  <2>1. /\ mem' = [mem EXCEPT ![c] = Blank] /\ UNCHANGED numEntries /\ pc[m] = "watch"
        /\ cursor' = [cursor EXCEPT ![c] = 0] /\ curr' = [curr EXCEPT ![c] = 0]
        /\ \E w \in {"enter", "wait"} : pc' = [pc EXCEPT ![c] = "dead", ![m] = w]
        /\ \E w \in Calls : call' = [call EXCEPT ![c] = None, ![m] = w]
    BY <1>5 DEF HandleException, Reap, Calls, shared
  <2>2. m \notin Tracees
    BY ActorsAssumption
  <2>3. \A d \in Tracees : d # c => call'[d] = call[d]
    BY <1>1, <2>1, <2>2
  <2>4. \E w \in {"enter", "wait", "spawn"} : pc' = [pc EXCEPT ![c] = "dead", ![m] = w]
    BY <2>1
  <2>5. QED
    BY <2>1, <2>3, <2>4, AlignedReap
<1>6. ASSUME NEW m \in Monitors, UnwantedHeld(m) PROVE Aligned'
  <2>1. /\ mem' = [mem EXCEPT ![Main] = [mem[Main] EXCEPT !.lastSeq = updatedSeq + 1]]
        /\ pc' = [pc EXCEPT ![m] = "unlock"] /\ pc[m] = "held" /\ UNCHANGED <<call, cursor, curr, numEntries>>
    BY <1>1, <1>6 DEF UnwantedHeld, Goto, Local
  <2>2. \A s \in Spaces : mem'[s].nextIndex = mem[s].nextIndex /\ mem'[s].nextItem = mem[s].nextItem
    BY <1>1, <2>1 DEF Local
  <2>3. \A d \in Tracees : Checked(d)' => Checked(d)
    BY <1>1, <2>1 DEF Checked
  <2>4. \A t \in Threads : t # m => pc'[t] = pc[t]
    BY <1>1, <2>1
  <2>5. pc'[m] = "unlock"
    BY <1>1, <2>1
  <2>6. QED
    BY <1>1, <2>1, <2>2, <2>3, <2>4, <2>5, AlignedFrame DEF Gone
<1>7. ASSUME NEW m \in Monitors, UnwantedNull(m) PROVE Aligned'
  BY <1>3, <1>7 DEF UnwantedNull, shared
<1>8. ASSUME NEW s \in Printers, PrintStatus(s) \/ PrintDecay(s) PROVE Aligned'
  <2>1. CASE Segv /\ UNCHANGED <<mem, call, cursor, curr, numEntries>>
    BY <1>3, <2>1
  <2>2. CASE ~(Segv /\ UNCHANGED <<mem, call, cursor, curr, numEntries>>)
    <3>1. /\ UNCHANGED <<mem, cursor, curr, numEntries>> /\ pc[s] \in {"idle", "print"}
          /\ \E w \in {"enter", "idle"} : pc' = [pc EXCEPT ![s] = w]
          /\ \A t \in Threads : t # s => call'[t] = call[t]
      BY <1>1, <1>8, <2>2 DEF PrintStatus, PrintDecay, Enter, Goto, shared
    <3>2. \A d \in Tracees : Checked(d)' => Checked(d)
      BY <1>1, <3>1 DEF Checked
    <3>3. \A t \in Threads : t # s => pc'[t] = pc[t]
      BY <1>1, <3>1
    <3>4. pc'[s] \in {"enter", "idle"}
      BY <1>1, <3>1
    <3>5. QED
      BY <1>1, <3>1, <3>2, <3>3, <3>4, AlignedFrame DEF Gone
  <2>3. QED
    BY <2>1, <2>2
<1>9. QED
  BY <1>1, <1>2, <1>4, <1>5, <1>6, <1>7, <1>8 DEF MonitorStep, StatusStep

LEMMA AlignedFault ==
  ASSUME Aligned, DataType, ControlType, Locking, ~split', Fault
  PROVE  Aligned'
<1>1. /\ mem \in [Spaces -> Local] /\ Tracees \subseteq Threads /\ Tracees \subseteq Spaces
      /\ pc \in [Threads -> Places] /\ numEntries \in Nat
      /\ \A t \in Threads : Space(t) \in Spaces
      /\ \A t, c \in Threads : c \in Tracees /\ Space(t) = Space(c) => t = c
  BY ActorsAssumption DEF Threads, MainThreads, Space, Spaces, DataType, ControlType
<1>2. ASSUME NEW c \in Tracees, Crash(c) PROVE Aligned'
  <2>1. /\ UNCHANGED <<mem, call, cursor, curr, numEntries>> /\ pc' = [pc EXCEPT ![c] = "crashed"]
        /\ pc[c] = "target"
    BY <1>2 DEF Crash, Goto, shared
  <2>2. \A d \in Tracees : Checked(d)' => Checked(d)
    BY <1>1, <2>1 DEF Checked
  <2>3. QED
    BY <1>1, <2>1, <2>2, AlignedFrame DEF Gone
<1>3. ASSUME NEW m \in Monitors, NEW c \in Tracees, Kill(m, c) PROVE Aligned'
  <2>1. /\ mem' = [mem EXCEPT ![c] = Blank] /\ UNCHANGED numEntries /\ pc[m] = "watch"
        /\ cursor' = [cursor EXCEPT ![c] = 0] /\ curr' = [curr EXCEPT ![c] = 0]
        /\ \E w \in {"spawn"} : pc' = [pc EXCEPT ![c] = "dead", ![m] = w]
        /\ call' = [call EXCEPT ![c] = None]
    BY <1>3 DEF Kill, Reap, shared
  <2>2. \A d \in Tracees : d # c => call'[d] = call[d]
    <3>1. call \in [Threads -> Calls]
      BY DEF ControlType
    <3>2. QED
      BY <1>1, <2>1, <3>1
  <2>3. \E w \in {"enter", "wait", "spawn"} : pc' = [pc EXCEPT ![c] = "dead", ![m] = w]
    BY <2>1
  <2>4. QED
    BY <2>1, <2>2, <2>3, AlignedReap
<1>4. CASE Restart
  <2>1. mem' = FreshMem /\ pc' = FreshPc /\ UNCHANGED numEntries
    BY <1>4 DEF Restart, shared
  <2>2. \A t \in Threads : pc'[t] \in {"spawn", "idle", "dead"}
    BY <2>1 DEF FreshPc
  <2>3. /\ InitObject.nextIndex \in {0, numEntries} /\ InitObject.nextItem = InitObject.nextIndex
        /\ Blank.nextIndex = 0 /\ Blank.nextItem = 0
    BY DEF InitObject, Blank
  <2>4. \A s \in Spaces : mem'[s] = InitObject \/ mem'[s] = Blank
    BY <2>1 DEF FreshMem
  <2>5. \A s \in Spaces : mem'[s].nextIndex <= numEntries' /\ Agree(s)'
    BY <1>1, <2>1, <2>3, <2>4 DEF Agree
  <2>6. QED
    BY <1>1, <2>2, <2>5 DEF Aligned, Checked, Space
<1>5. QED
  BY <1>2, <1>3, <1>4, Fault DEF Fault

LEMMA AlignedStep == Aligned /\ DataType /\ ControlType /\ Locking /\ ~split' /\ [Next]_vars => Aligned'
<1> SUFFICES ASSUME Aligned, DataType, ControlType, Locking, ~split', [Next]_vars PROVE Aligned'
  OBVIOUS
<1>1. CASE UNCHANGED vars
  BY <1>1 DEF Aligned, Agree, Checked, Space, vars, shared, control, history
<1>2. QED
  BY <1>1, AlignedTracee, AlignedMain, AlignedFault DEF Next

-----------------------------------------------------------------------------
(* Data: the types of the map and of the mirrors, and how far the map is   *)
(* written.  A thread about to publish has laid down exactly one header.   *)

Laid ==
  /\ numEntries <= Len(items)
  /\ Len(items) <= numEntries + 1
  /\ \A c \in Tracees :
       pc[c] = "publish" =>
         Len(items) = numEntries + 1 /\ items[numEntries + 1].key = key[c]

DataInv == DataType /\ Aligned /\ Laid

\* Nothing is published and no published key changes.
Quiet ==
  /\ numEntries' = numEntries
  /\ \A i \in 1..numEntries : items'[i].key = items[i].key

\* The types hold whatever fork copied, the extent of the map as long as it never
\* copied an object between the stores that end SyncInner.
Kept == DataType' /\ (Aligned /\ Laid => Laid' /\ Quiet)

LEMMA DataInit == Init => DataInv
<1> SUFFICES ASSUME Init PROVE DataInv
  OBVIOUS
<1>1. items \in Seq(Header) /\ Len(items) = 0 /\ numEntries = 0 /\ updatedSeq = 0
  BY EmptySeq DEF Init
<1>2. InitObject \in Local
  BY <1>1, InitObjectType
<1>3. Blank \in Local
  BY BoundsAssumption, EmptySeq DEF Blank, Local
<1>4. mem \in [Spaces -> Local]
  BY <1>2, <1>3 DEF Init, FreshMem
<1>5. \A c \in Tracees : pc[c] # "publish"
  BY DEF Init, FreshPc, Threads, MainThreads
<1>6. QED
  BY <1>1, <1>4, <1>5, AlignedInit DEF DataInv, DataType, Laid

\* A step that keeps the headers in place and their keys, and does not bring a
\* thread to "publish", keeps the extent of the map.
LEMMA LaidFrame ==
  ASSUME DataType, items' \in Seq(Header), Len(items') = Len(items), numEntries' = numEntries,
         \A i \in 1..Len(items) : items'[i].key = items[i].key,
         \A d \in Tracees : pc'[d] = "publish" => pc[d] = "publish" /\ key'[d] = key[d]
  PROVE  Laid => Laid' /\ Quiet
<1> SUFFICES ASSUME Laid PROVE Laid' /\ Quiet
  OBVIOUS
<1>1. Len(items) \in Nat /\ numEntries \in Nat
  BY DEF DataType
<1>2. numEntries' <= Len(items') /\ Len(items') <= numEntries' + 1 /\ Quiet
  BY <1>1 DEF Laid, Quiet
<1>3. ASSUME NEW d \in Tracees, pc'[d] = "publish"
      PROVE  Len(items') = numEntries' + 1 /\ items'[numEntries' + 1].key = key'[d]
  BY <1>1, <1>3 DEF Laid
<1>4. QED
  BY <1>2, <1>3 DEF Laid

LEMMA DataCall ==
  ASSUME DataType, ControlInv, Locking, NEW t \in Threads, CallStep(t)
  PROVE  Kept
<1> USE DEF DataType, Kept
<1>1. /\ Space(t) \in Spaces /\ mem[Space(t)] \in Local /\ pc \in [Threads -> Places]
      /\ Tracees \subseteq Threads
  BY DEF Space, Spaces, Threads, MainThreads, ControlInv, ControlType
<1>2. CASE SyncCheck(t)
  <2>1. \A u \in Tracees : pc'[u] = "publish" => pc[u] = "publish" /\ key'[u] = key[u]
    BY <1>1, <1>2 DEF SyncCheck, Enter, Goto, Return
  <2>2. QED
    BY <1>2, <2>1, LaidFrame DEF SyncCheck, shared
<1>3. CASE Acquire(t)
  <2>1. \E w \in {"held", "sync", "attach"} : pc' = [pc EXCEPT ![t] = w]
    BY <1>3 DEF Acquire, BeginMerge, Goto
  <2>2. UNCHANGED <<items, numEntries, updatedSeq, key>>
    BY <1>3 DEF Acquire, shared
  <2>3. \A u \in Tracees : pc'[u] = "publish" => pc[u] = "publish" /\ key'[u] = key[u]
    BY <1>1, <2>1, <2>2
  <2>4. mem' \in [Spaces -> Local]
    <3> DEFINE o == mem[Space(t)]
               merging == [o EXCEPT !.lastSeq = updatedSeq]
               empty == [o EXCEPT !.attached = TRUE, !.snapshots = <<>>, !.nextIndex = 0, !.nextItem = 0]
    <3>1. merging \in Local /\ empty \in Local
      BY <1>1, EmptySeq DEF Local
    <3>2. \/ mem' = mem
          \/ mem' = [mem EXCEPT ![Space(t)] = merging]
          \/ mem' = [mem EXCEPT ![Space(t)] = empty]
      BY <1>1, <1>3 DEF Acquire, BeginMerge, Object, Local
    <3> HIDE DEF o, merging, empty
    <3>3. QED
      BY <1>1, <3>1, <3>2
  <2>5. QED
    BY <2>2, <2>3, <2>4, LaidFrame
<1>8. CASE Attach(t)
  <2> DEFINE o == [mem[Space(t)] EXCEPT !.first = TRUE, !.lastSeq = updatedSeq]
  <2>1. o \in Local
    BY <1>1 DEF Local
  <2>2. mem' = [mem EXCEPT ![Space(t)] = o]
    BY <1>1, <1>8 DEF Attach, BeginMerge, Object, Local
  <2>3. UNCHANGED <<items, numEntries, updatedSeq, key>> /\ pc' = [pc EXCEPT ![t] = "sync"]
    BY <1>8 DEF Attach, BeginMerge, Goto, shared
  <2> HIDE DEF o
  <2>4. mem' \in [Spaces -> Local]
    BY <1>1, <2>1, <2>2
  <2>5. \A u \in Tracees : pc'[u] = "publish" => pc[u] = "publish" /\ key'[u] = key[u]
    BY <1>1, <2>3
  <2>6. QED
    BY <2>3, <2>4, <2>5, LaidFrame
<1>4. CASE SyncItem(t)
  <2> DEFINE hdr == Slot(items, curr[t] + 1)
             i == cursor[t] + 1
  <2>1. i \in Nat /\ hdr \in Header
    BY SlotType DEF ControlInv, ControlType
  <2>2. mem' = [mem EXCEPT
                 ![Space(t)].snapshots = Append(mem[Space(t)].snapshots, Mirror(hdr, i)),
                 ![Space(t)].seenKeys = mem[Space(t)].seenKeys \cup {hdr.key}]
    BY <1>1, <1>4 DEF SyncItem, Local
  <2> HIDE DEF i, hdr
  <2>3. hdr.key \in AnyKey
    BY <2>1 DEF Header
  <2>4. Append(mem[Space(t)].snapshots, Mirror(hdr, i)) \in Seq(Entry)
    BY <1>1, <2>1, MirrorType DEF Local
  <2>5. mem' \in [Spaces -> Local]
    BY <1>1, <2>2, <2>3, <2>4 DEF Local
  <2>6. UNCHANGED <<items, numEntries, updatedSeq, pc, key>>
    BY <1>4 DEF SyncItem, shared
  <2>7. QED
    BY <2>5, <2>6, LaidFrame
<1>9. CASE SyncIndex(t)
  <2>1. UNCHANGED <<items, numEntries, updatedSeq, key>> /\ pc' = [pc EXCEPT ![t] = "pointer"]
    BY <1>9 DEF SyncIndex, Goto, shared
  <2>2. cursor[t] \in Nat
    BY DEF ControlInv, ControlType
  <2>3. mem' \in [Spaces -> Local]
    BY <1>1, <1>9, <2>2 DEF SyncIndex, Local
  <2>4. \A u \in Tracees : pc'[u] = "publish" => pc[u] = "publish" /\ key'[u] = key[u]
    BY <1>1, <2>1
  <2>5. QED
    BY <2>1, <2>3, <2>4, LaidFrame
<1>5. CASE SyncEnd(t)
  <2>1. items' = FlushTo(items, mem[Space(t)].snapshots) /\ mem[Space(t)].snapshots \in Seq(Entry)
    BY <1>1, <1>5 DEF SyncEnd, Object, Local
  <2>2. /\ items' \in Seq(Header) /\ Len(items') = Len(items)
        /\ \A i \in 1..Len(items) : items'[i].key = items[i].key
    BY <2>1, FlushToType
  <2> DEFINE snap == FlushFrom(items, mem[Space(t)].snapshots)
  <2>3. snap \in Seq(Entry) /\ curr[t] \in Nat
    BY <2>1, FlushFromType DEF ControlInv, ControlType
  <2>4. mem' = [mem EXCEPT ![Space(t)].nextItem = curr[t], ![Space(t)].snapshots = snap]
    BY <1>1, <1>5 DEF SyncEnd, Local
  <2> HIDE DEF snap
  <2>5. mem' \in [Spaces -> Local]
    BY <1>1, <2>3, <2>4 DEF Local
  <2>6. /\ UNCHANGED <<numEntries, updatedSeq, key>>
        /\ pc' = [pc EXCEPT ![t] = IF call[t] = "Add" THEN "held" ELSE "unlock"]
    BY <1>5 DEF SyncEnd, Goto
  <2>7. \A u \in Tracees : pc'[u] = "publish" => pc[u] = "publish" /\ key'[u] = key[u]
    BY <1>1, <2>6
  <2>8. QED
    BY <2>2, <2>5, <2>6, <2>7, LaidFrame
<1>6. CASE Release(t)
  <2>1. \A u \in Tracees : pc'[u] = "publish" => pc[u] = "publish" /\ key'[u] = key[u]
    BY <1>1, <1>6 DEF Release, Goto, Return
  <2>2. QED
    BY <1>6, <2>1, LaidFrame DEF Release, shared
<1>7. QED
  BY <1>2, <1>3, <1>4, <1>5, <1>6, <1>8, <1>9, CallStep(t) DEF CallStep

\* Who lays down an item does so behind the published ones.
LEMMA AdderAtEnd ==
  ASSUME Aligned, NEW c \in Tracees, Checked(c)
  PROVE  mem[c].nextItem = numEntries /\ mem[c].nextIndex = numEntries
<1>1. c \in Threads /\ Space(c) = c /\ \A u \in Threads : Space(u) = c => u = c
  BY ActorsAssumption DEF Threads, MainThreads, Space
<1>2. pc[c] # "pointer" /\ pc[c] \notin Gone
  BY DEF Checked, Gone
<1>3. Agree(c)
  BY <1>1, <1>2 DEF Aligned
<1>4. QED
  BY <1>3 DEF Aligned, Agree

LEMMA DataAddWrite ==
  ASSUME DataType, ControlInv, Locking, NEW c \in Tracees, AddWrite(c)
  PROVE  Kept
<1> USE DEF DataType
<1> DEFINE snap == mem[c].snapshots
           p == IF used[c] THEN mem[c].lastItem ELSE 0
           entry == [index |-> Len(snap) + 1, key |-> key[c], parent |-> p,
                     mut |-> 0, new |-> 0]
           header == [key |-> key[c], parent |-> p, mut |-> 0, direct |-> 0, desc |-> 0,
                      anc |-> AncestorDepth(snap, p)]
           counted == CountOffspring(items, snap, p)
           place == mem[c].nextItem + 1
<1>1. /\ c \in Threads /\ c \in Spaces /\ mem[c] \in Local
      /\ pc \in [Threads -> Places] /\ key \in [Tracees -> Keys \cup {None}]
  BY DEF Threads, MainThreads, Spaces, ControlInv, ControlType
<1>2. snap \in Seq(Entry) /\ mem[c].lastItem \in Nat /\ place \in Nat \ {0}
  BY <1>1 DEF Local
<1>3. p \in Nat
  BY <1>2
<1>4. 0 \in Counter
  BY BoundsAssumption DEF Counter
<1>5. /\ counted \in Seq(Header) /\ Len(counted) = Len(items)
      /\ \A i \in 1..Len(items) : counted[i].key = items[i].key
  BY <1>2, <1>3, CountOffspringType
<1>6. /\ mem' = [mem EXCEPT ![c].snapshots = Append(ResetParent(snap, p), entry)]
      /\ items' = Lay(counted, place, header)
      /\ pc' = [pc EXCEPT ![c] = "publish"] /\ pc[c] = "held" /\ call[c] = "Add"
      /\ UNCHANGED <<numEntries, updatedSeq, key>>
  BY <1>1 DEF AddWrite, Goto, Local
<1>7. key[c] \in AnyKey
  BY <1>1 DEF AnyKey
<1> HIDE DEF snap, p, counted
<1> HIDE DEF place
<1>8. Len(snap) + 1 \in Nat /\ AncestorDepth(snap, p) \in Nat
  <2>1. Len(snap) \in Nat
    BY <1>2
  <2>2. AncestorDepth(snap, p) \in Nat
    BY <1>2, <1>3, AncestorDepthType
  <2>3. QED
    BY <2>1, <2>2
<1>9. entry \in Entry /\ header \in Header /\ header.key = key[c]
  BY <1>3, <1>4, <1>7, <1>8 DEF Entry, Header
<1> HIDE DEF entry, header
<1>10. mem' \in [Spaces -> Local]
  <2>1. Append(ResetParent(snap, p), entry) \in Seq(Entry)
    BY <1>2, <1>3, <1>9, ResetParentType
  <2>2. QED
    BY <1>1, <1>6, <2>1 DEF Local
<1>11. /\ items' \in Seq(Header)
       /\ Len(items') = IF place > Len(items) THEN place ELSE Len(items)
       /\ items'[place] = header
       /\ \A i \in 1..Len(items) : i # place => items'[i] = counted[i]
  <2>1. items' = Lay(counted, place, header)
    BY <1>6
  <2> DEFINE laid == Lay(counted, place, header)
  <2>2. /\ laid \in Seq(Header)
        /\ Len(laid) = IF place > Len(counted) THEN place ELSE Len(counted)
        /\ laid[place] = header
        /\ \A i \in 1..Len(counted) : i # place => laid[i] = counted[i]
    BY <1>2, <1>5, <1>9, LayType
  <2> HIDE DEF laid
  <2>3. items' = laid
    BY <2>1 DEF laid
  <2>4. QED
    BY <1>5, <2>2, <2>3
<1>12. \A d \in Tracees : pc'[d] = "publish" => d = c
  BY <1>1, <1>6 DEF Threads, MainThreads, Locking, MutualExclusion, InSection
<1>13. ASSUME Aligned, Laid PROVE Laid' /\ Quiet
  <2>1. place = numEntries + 1
    BY <1>6, <1>13, AdderAtEnd DEF place, Checked
  <2>2. /\ Len(items) \in Nat /\ numEntries \in Nat
        /\ numEntries <= Len(items) /\ Len(items) <= numEntries + 1
    BY <1>13 DEF Laid
  <2>3. Len(items') = numEntries + 1
    BY <1>11, <2>1, <2>2
  <2>4. \A i \in 1..numEntries : items'[i].key = items[i].key
    BY <1>5, <1>11, <2>1, <2>2
  <2>5. QED
    BY <1>6, <1>9, <1>11, <1>12, <2>1, <2>2, <2>3, <2>4 DEF Laid, Quiet
<1>14. QED
  BY <1>6, <1>10, <1>11, <1>13 DEF Kept

LEMMA DataAddPublish ==
  ASSUME DataType, ControlInv, Locking, NEW c \in Tracees, AddPublish(c)
  PROVE  DataType' /\ (Laid => Laid')
<1> USE DEF DataType
<1>1. /\ c \in Threads /\ c \in Spaces /\ mem[c] \in Local /\ pc \in [Threads -> Places]
      /\ key[c] \in Keys /\ pc[c] = "publish"
  BY DEF AddPublish, Threads, MainThreads, Spaces, ControlInv, ControlType, Adding
<1>2. /\ numEntries' = numEntries + 1 /\ updatedSeq' = updatedSeq + 1 /\ items' = items
      /\ pc' = [pc EXCEPT ![c] = "unlock"]
  BY DEF AddPublish, Goto
<1>3. mem[c].seenKeys \cup {key[c]} \in SUBSET AnyKey
  BY <1>1 DEF Local, AnyKey
<1>4. mem' \in [Spaces -> Local]
  <2>1. mem' = [mem EXCEPT ![c].lastSeq = updatedSeq + 1, ![c].nextIndex = numEntries + 1,
                           ![c].nextItem = mem[c].nextItem + 1,
                           ![c].seenKeys = mem[c].seenKeys \cup {key[c]}]
    BY <1>1 DEF AddPublish, Local
  <2>2. updatedSeq + 1 \in Nat /\ numEntries + 1 \in Nat /\ mem[c].nextItem + 1 \in Nat
    BY <1>1 DEF Local
  <2>3. QED
    BY <1>1, <1>3, <2>1, <2>2 DEF Local
<1>5. \A d \in Tracees : pc'[d] # "publish"
  BY <1>1, <1>2 DEF Threads, MainThreads, Locking, MutualExclusion, InSection
<1>6. Laid => Len(items) = numEntries + 1
  BY <1>1 DEF Laid
<1>7. QED
  BY <1>2, <1>4, <1>5, <1>6 DEF Laid

LEMMA DataTracee ==
  ASSUME DataType, ControlInv, Locking, NEW c \in Tracees, TraceeStep(c)
  PROVE  Kept \/ (AddPublish(c) /\ DataType' /\ (Laid => Laid'))
<1> USE DEF DataType
<1>0. /\ c \in Threads /\ c \in Spaces /\ mem[c] \in Local /\ Tracees \subseteq Threads
      /\ pc \in [Threads -> Places] /\ key \in [Tracees -> Keys \cup {None}]
  BY DEF Threads, MainThreads, Spaces, ControlInv, ControlType
<1>1. CASE CallStep(c)
  BY <1>0, <1>1, DataCall
<1>2. CASE CreateInput(c) \/ GetItem(c) \/ SyncCounters(c) \/ NothingNew(c) \/ AddSeen(c)
           \/ CountersNull(c) \/ \E k \in Keys : FoundCoverage(c, k)
  <2>1. /\ UNCHANGED <<items, numEntries, updatedSeq, mem>>
        /\ \A d \in Tracees : pc'[d] = "publish" => pc[d] = "publish" /\ key'[d] = key[d]
    <3>1. CASE CreateInput(c)
      BY <1>0, <3>1 DEF CreateInput, Enter, Goto, shared
    <3>2. CASE GetItem(c)
      BY <1>0, <3>2 DEF GetItem, Enter, Goto, shared
    <3>3. CASE SyncCounters(c)
      BY <1>0, <3>3 DEF SyncCounters, Enter, Goto, shared
    <3>4. CASE NothingNew(c)
      BY <1>0, <3>4 DEF NothingNew, Goto, shared
    <3>5. CASE AddSeen(c)
      BY <1>0, <3>5 DEF AddSeen, Goto, shared
    <3>6. CASE \E k \in Keys : FoundCoverage(c, k)
      BY <1>0, <3>6 DEF FoundCoverage, Enter, Goto, shared
    <3>7. CASE CountersNull(c)
      BY <1>0, <3>7 DEF CountersNull, Goto, shared
    <3>8. QED
      BY <1>2, <3>1, <3>2, <3>3, <3>4, <3>5, <3>6, <3>7
  <2>2. QED
    BY <2>1, LaidFrame DEF Kept
<1>3. CASE PickItem(c)
  <2>1. PICK i \in 1..Len(mem[c].snapshots) :
          mem' = [mem EXCEPT ![c].lastItem = i,
                             ![c].snapshots[i].new = (@ + 1) % (MaxCount + 1)]
    BY <1>3 DEF PickItem
  <2> DEFINE snap == mem[c].snapshots
             n == (snap[i].new + 1) % (MaxCount + 1)
  <2>2. snap \in Seq(Entry) /\ i \in Nat /\ snap[i] \in Entry
    BY <1>0 DEF Local
  <2>3. n \in Counter
    <3>1. snap[i].new \in 0..MaxCount
      BY <2>2 DEF Entry, Counter
    <3>2. \A a \in 0..MaxCount : (a + 1) % (MaxCount + 1) \in 0..MaxCount
      BY BoundsAssumption
    <3>3. QED
      BY <3>1, <3>2 DEF Counter
  <2>4. [snap[i] EXCEPT !.new = n] \in Entry
    BY <2>2, <2>3 DEF Entry
  <2>5. [snap EXCEPT ![i] = [snap[i] EXCEPT !.new = n]] \in Seq(Entry)
    BY <2>2, <2>4, ExceptSeq
  <2>6. mem' = [mem EXCEPT ![c].lastItem = i,
                           ![c].snapshots = [snap EXCEPT ![i] = [snap[i] EXCEPT !.new = n]]]
    BY <1>0, <2>1, <2>2 DEF Local, Entry
  <2> HIDE DEF snap, n
  <2>7. mem' \in [Spaces -> Local]
    BY <1>0, <2>2, <2>5, <2>6 DEF Local
  <2>8. UNCHANGED <<items, numEntries, updatedSeq, key>> /\ pc' = [pc EXCEPT ![c] = "target"]
    BY <1>3 DEF PickItem, Enter, Goto, shared
  <2>9. QED
    BY <1>0, <2>7, <2>8, LaidFrame DEF Kept
<1>4. CASE AddWrite(c)
  BY <1>4, DataAddWrite
<1>5. CASE AddPublish(c)
  BY <1>5, DataAddPublish
<1>6. CASE CountersHeld(c)
  <2>1. items' = FlushTo(items, mem[c].snapshots) /\ mem[c].snapshots \in Seq(Entry)
    BY <1>0, <1>6 DEF CountersHeld, Local
  <2>2. /\ items' \in Seq(Header) /\ Len(items') = Len(items)
        /\ \A i \in 1..Len(items) : items'[i].key = items[i].key
    BY <2>1, FlushToType
  <2>3. FlushFrom(items, mem[c].snapshots) \in Seq(Entry)
    BY <2>1, FlushFromType
  <2>4. mem' \in [Spaces -> Local]
    BY <1>0, <1>6, <2>3 DEF CountersHeld, Local
  <2>5. UNCHANGED <<numEntries, updatedSeq, key>> /\ pc' = [pc EXCEPT ![c] = "unlock"]
    BY <1>6 DEF CountersHeld, Goto
  <2>6. QED
    BY <1>0, <2>2, <2>4, <2>5, LaidFrame DEF Kept
<1>7. QED
  BY <1>1, <1>2, <1>3, <1>4, <1>5, <1>6, TraceeStep(c) DEF TraceeStep

LEMMA DataMonitor ==
  ASSUME DataType, ControlInv, Locking, NEW m \in Monitors, MonitorStep(m)
  PROVE  Kept
<1> USE DEF DataType, Kept
<1>0. /\ m \in Threads /\ m \notin Tracees /\ Main \in Spaces /\ mem[Main] \in Local
      /\ Tracees \subseteq Threads /\ Tracees \subseteq Spaces
      /\ pc \in [Threads -> Places] /\ key \in [Tracees -> Keys \cup {None}]
  BY ActorsAssumption DEF Threads, MainThreads, Spaces, ControlInv, ControlType
<1>1. CASE CallStep(m)
  BY <1>0, <1>1, DataCall
<1>2. ASSUME NEW c \in Tracees, Fork(m, c) PROVE Kept
  <2>1. /\ UNCHANGED <<items, numEntries, updatedSeq, key>>
        /\ mem' = [mem EXCEPT ![c] = mem[Main]]
        /\ pc' = [pc EXCEPT ![m] = "watch", ![c] = "enter"]
    BY <1>2 DEF Fork, shared
  <2>2. QED
    BY <1>0, <2>1, LaidFrame
<1>3. ASSUME NEW c \in Tracees, HandleException(m, c) PROVE Kept
  <2>1. Blank \in Local
    BY BoundsAssumption, EmptySeq DEF Blank, Local
  <2>2. /\ UNCHANGED <<items, numEntries, updatedSeq>>
        /\ mem' = [mem EXCEPT ![c] = Blank] /\ key' = [key EXCEPT ![c] = None]
    BY <1>3 DEF HandleException, Reap, shared
  <2>3. \A d \in Tracees : pc'[d] = "publish" => d # c /\ pc[d] = "publish"
    BY <1>0, <1>3 DEF HandleException
  <2>4. QED
    BY <1>0, <2>1, <2>2, <2>3, LaidFrame
<1>4. CASE UnwantedHeld(m)
  <2> DEFINE bumped == [i \in 1..Len(items) |->
                         IF i = unwanted[m]
                         THEN [items[i] EXCEPT !.mut = (@ + 1) % (MaxCount + 1)]
                         ELSE items[i]]
  <2>1. /\ items' = bumped /\ updatedSeq' = updatedSeq + 1
        /\ mem' = [mem EXCEPT ![Main].lastSeq = updatedSeq + 1]
        /\ pc' = [pc EXCEPT ![m] = "unlock"] /\ UNCHANGED <<numEntries, key>>
    BY <1>4 DEF UnwantedHeld, Goto
  <2>2. ASSUME NEW i \in 1..Len(items)
        PROVE  bumped[i] \in Header /\ bumped[i].key = items[i].key
    <3>1. items[i] \in Header
      OBVIOUS
    <3>2. \A a \in 0..MaxCount : (a + 1) % (MaxCount + 1) \in 0..MaxCount
      BY BoundsAssumption
    <3>3. (items[i].mut + 1) % (MaxCount + 1) \in Counter
      BY <3>1, <3>2 DEF Header, Counter
    <3>4. QED
      BY <3>1, <3>3 DEF Header
  <2>3. bumped \in [1..Len(items) -> Header] /\ Len(items) \in Nat
    BY <2>2
  <2> HIDE DEF bumped
  <2>4. bumped \in Seq(Header) /\ Len(bumped) = Len(items)
    BY <2>3, FunctionIsSeq
  <2>5. mem' \in [Spaces -> Local] /\ updatedSeq' \in Nat
    <3>1. updatedSeq + 1 \in Nat
      OBVIOUS
    <3>2. [mem[Main] EXCEPT !.lastSeq = updatedSeq + 1] \in Local
      BY <1>0, <3>1 DEF Local
    <3>3. mem' = [mem EXCEPT ![Main] = [mem[Main] EXCEPT !.lastSeq = updatedSeq + 1]]
      BY <1>0, <2>1
    <3>4. QED
      BY <1>0, <2>1, <3>1, <3>2, <3>3
  <2>6. QED
    BY <1>0, <2>1, <2>2, <2>4, <2>5, LaidFrame
<1>5. CASE UnwantedNull(m)
  BY <1>0, <1>5, LaidFrame DEF UnwantedNull, Segv, shared
<1>6. QED
  BY <1>1, <1>2, <1>3, <1>4, <1>5, MonitorStep(m) DEF MonitorStep

LEMMA DataStatus ==
  ASSUME DataType, ControlInv, Locking, NEW s \in Printers, StatusStep(s)
  PROVE  Kept
<1> USE DEF DataType, Kept
<1>0. s \in Threads /\ Tracees \subseteq Threads /\ pc \in [Threads -> Places]
  BY DEF Threads, MainThreads, ControlInv, ControlType
<1>1. CASE CallStep(s)
  BY <1>0, <1>1, DataCall
<1>2. CASE PrintStatus(s)
  BY <1>0, <1>2, LaidFrame DEF PrintStatus, Enter, Goto, shared
<1>3. CASE PrintDecay(s)
  BY <1>0, <1>3, LaidFrame DEF PrintDecay, Segv, Goto, shared
<1>4. QED
  BY <1>1, <1>2, <1>3, StatusStep(s) DEF StatusStep

LEMMA DataFault ==
  ASSUME DataType, ControlInv, Locking, Fault
  PROVE  Kept
<1> USE DEF DataType, Kept
<1>0. /\ Tracees \subseteq Threads /\ Monitors \subseteq Threads /\ Monitors \cap Tracees = {}
      /\ Tracees \subseteq Spaces /\ Blank \in Local
      /\ pc \in [Threads -> Places] /\ key \in [Tracees -> Keys \cup {None}]
  BY ActorsAssumption, BoundsAssumption, EmptySeq
     DEF Threads, MainThreads, Spaces, ControlInv, ControlType, Blank, Local
<1>1. CASE \E c \in Tracees : Crash(c)
  <2>1. /\ UNCHANGED <<items, numEntries, updatedSeq, mem, key>>
        /\ \E c \in Tracees : pc' = [pc EXCEPT ![c] = "crashed"]
    BY <1>1 DEF Crash, Goto, shared
  <2>2. QED
    BY <1>0, <2>1, LaidFrame
<1>2. ASSUME NEW m \in Monitors, NEW c \in Tracees, Kill(m, c) PROVE Kept
  <2>1. /\ UNCHANGED <<items, numEntries, updatedSeq>>
        /\ mem' = [mem EXCEPT ![c] = Blank] /\ key' = [key EXCEPT ![c] = None]
        /\ pc' = [pc EXCEPT ![c] = "dead", ![m] = "spawn"]
    BY <1>2 DEF Kill, Reap, shared
  <2>2. QED
    BY <1>0, <2>1, LaidFrame
<1>3. CASE Restart
  <2>1. UNCHANGED <<items, numEntries, updatedSeq>> /\ mem' = FreshMem /\ pc' = FreshPc
    BY <1>3 DEF Restart, shared
  <2>2. InitObject \in Local
    BY InitObjectType
  <2>3. mem' \in [Spaces -> Local]
    BY <1>0, <2>1, <2>2 DEF FreshMem
  <2>4. \A d \in Tracees : pc'[d] # "publish"
    BY <1>0, <2>1 DEF FreshPc
  <2>5. QED
    BY <2>1, <2>3, <2>4, LaidFrame
<1>4. QED
  BY <1>1, <1>2, <1>3, Fault DEF Fault

-----------------------------------------------------------------------------
(* The three invariants together.                                          *)

TypeInv == Locking /\ ControlInv /\ DataType
BaseInv == Locking /\ ControlInv /\ DataInv

LEMMA BaseInit == Init => TypeInv /\ BaseInv
BY LockingInit, ControlInit, DataInit DEF TypeInv, BaseInv, DataInv

LEMMA BaseIsTyped == BaseInv => TypeInv
BY DEF BaseInv, DataInv, TypeInv

LEMMA TypeStep == TypeInv /\ [Next]_vars => TypeInv'
<1> SUFFICES ASSUME TypeInv, [Next]_vars PROVE TypeInv'
  OBVIOUS
<1>1. Locking'
  BY LockingStep DEF TypeInv
<1>2. ASSUME NEW c \in Tracees, TraceeStep(c) PROVE ControlInv' /\ DataType'
  BY <1>2, ControlTracee, DataTracee DEF TypeInv, Kept
<1>3. ASSUME NEW m \in Monitors, MonitorStep(m) PROVE ControlInv' /\ DataType'
  BY <1>3, ControlMonitor, DataMonitor DEF TypeInv, Kept
<1>4. CASE Fault
  BY <1>1, <1>4, ControlFault, DataFault DEF TypeInv, Kept
<1>5. CASE UNCHANGED vars
  BY <1>1, <1>5 DEF TypeInv, ControlInv, ControlType, Adding, DataType, vars, shared, control, history
<1>6. ASSUME NEW s \in Printers, StatusStep(s) PROVE ControlInv' /\ DataType'
  BY <1>6, ControlStatus, DataStatus DEF TypeInv, Kept
<1>7. QED
  BY <1>1, <1>2, <1>3, <1>4, <1>5, <1>6 DEF Next, TypeInv

LEMMA BaseStep == BaseInv /\ ~split' /\ [Next]_vars => BaseInv'
<1> SUFFICES ASSUME BaseInv, ~split', [Next]_vars PROVE BaseInv'
  OBVIOUS
<1>1. TypeInv'
  BY BaseIsTyped, TypeStep
<1>2. Aligned'
  BY AlignedStep DEF BaseInv, ControlInv, DataInv
<1>3. Laid'
  <2> USE DEF BaseInv, DataInv
  <2>1. ASSUME NEW c \in Tracees, TraceeStep(c) PROVE Laid'
    BY <2>1, DataTracee DEF Kept
  <2>2. ASSUME NEW m \in Monitors, MonitorStep(m) PROVE Laid'
    BY <2>2, DataMonitor DEF Kept
  <2>3. ASSUME NEW s \in Printers, StatusStep(s) PROVE Laid'
    BY <2>3, DataStatus DEF Kept
  <2>4. CASE Fault
    BY <2>4, DataFault DEF Kept
  <2>5. CASE UNCHANGED vars
    BY <2>5 DEF Laid, vars, shared, control
  <2>6. QED
    BY <2>1, <2>2, <2>3, <2>4, <2>5 DEF Next
<1>4. QED
  BY <1>1, <1>2, <1>3 DEF TypeInv, BaseInv, DataInv

\* Once a tracee was forked between those two stores, it remains so.
LEMMA SplitStays == TypeInv /\ split /\ [Next]_vars => split'
<1> SUFFICES ASSUME TypeInv, split, [Next]_vars PROVE split'
  OBVIOUS
<1>1. ASSUME NEW t \in Threads, CallStep(t) PROVE split'
  BY <1>1 DEF CallStep, SyncCheck, Acquire, Attach, SyncItem, SyncIndex, SyncEnd, Release, history
<1>2. ASSUME NEW c \in Tracees, TraceeStep(c) PROVE split'
  BY <1>1, <1>2 DEF TraceeStep, CreateInput, GetItem, PickItem, SyncCounters, NothingNew,
     FoundCoverage, AddSeen, AddWrite, AddPublish, CountersHeld, CountersNull, history, Threads
<1>3. ASSUME NEW m \in Monitors, MonitorStep(m) PROVE split'
  BY <1>1, <1>3 DEF MonitorStep, Fork, HandleException, UnwantedHeld, UnwantedNull, history,
     Threads, MainThreads
<1>4. ASSUME NEW s \in Printers, StatusStep(s) PROVE split'
  BY <1>1, <1>4 DEF StatusStep, PrintStatus, PrintDecay, history, Threads, MainThreads
<1>5. CASE Fault
  BY <1>5 DEF Fault, Crash, Kill, Restart
<1>6. CASE UNCHANGED vars
  BY <1>6 DEF vars, history
<1>7. QED
  BY <1>2, <1>3, <1>4, <1>5, <1>6 DEF Next

\* What holds as long as fork took no such copy.
Sound == TypeInv /\ (split \/ BaseInv)

LEMMA SoundInit == Init => Sound
BY BaseInit DEF Sound

LEMMA SoundStep == Sound /\ [Next]_vars => Sound'
BY TypeStep, BaseStep, SplitStays DEF Sound

LEMMA SoundFacts == Sound => TypeOK /\ PublishedIsWritten
BY DEF Sound, TypeInv, BaseInv, Locking, MutualExclusion, ControlInv, ControlType, DataInv,
       DataType, Laid, TypeOK, PublishedIsWritten

\* Every variable of the corpus and of its callers keeps its type: in particular
\* every header laid down and every mirrored entry is complete, whatever fork
\* copied.
THEOREM TypeCorrect == Spec => []TypeOK
BY SoundInit, SoundStep, SoundFacts, PTL DEF Spec

\* num_entries never runs ahead of the headers in the map, and at most one header
\* lies behind it, also after a kill in the middle of an addition and a restart,
\* until a tracee is forked between the two stores that end SyncInner.
THEOREM NothingHalfPublished == Spec => []PublishedIsWritten
BY SoundInit, SoundStep, SoundFacts, PTL DEF Spec

-----------------------------------------------------------------------------
(* Plain forms of the operations that read or write a header by its place:   *)
(* the place is one of the list, or the next one.                            *)

PlainSyncItem(t) ==
  /\ pc[t] = "sync" /\ cursor[t] < numEntries
  /\ mem' = [mem EXCEPT
               ![Space(t)].snapshots = Append(@, Mirror(items[cursor[t] + 1], cursor[t] + 1)),
               ![Space(t)].seenKeys = @ \cup {items[cursor[t] + 1].key}]
  /\ cursor' = [cursor EXCEPT ![t] = @ + 1]
  /\ UNCHANGED <<shared, corpusLock, pc, call, key, used, child, unwanted, history>>

LEMMA SyncItemPlain ==
  ASSUME BaseInv, NEW t \in Threads, SyncItem(t)
  PROVE  PlainSyncItem(t)
<1>1. /\ pc[t] = "sync" /\ cursor[t] < numEntries /\ curr[t] = cursor[t] /\ cursor[t] \in Nat
      /\ numEntries <= Len(items) /\ items \in Seq(Header) /\ numEntries \in Nat
  BY DEF SyncItem, BaseInv, DataInv, DataType, Aligned, Laid, ControlInv, ControlType
<1>2. Slot(items, curr[t] + 1) = items[cursor[t] + 1]
  BY <1>1, SlotType
<1>3. QED
  BY <1>1, <1>2 DEF SyncItem, PlainSyncItem

PlainAddWrite(c) ==
  /\ pc[c] = "held" /\ call[c] = "Add"
  /\ ~SeenFeedback(c, key[c])
  /\ LET snap == mem[c].snapshots
         p == IF used[c] THEN mem[c].lastItem ELSE 0
         entry == [index |-> Len(snap) + 1, key |-> key[c], parent |-> p,
                   mut |-> 0, new |-> 0]
         header == [key |-> key[c], parent |-> p, mut |-> 0, direct |-> 0, desc |-> 0,
                    anc |-> AncestorDepth(snap, p)]
     IN  /\ mem' = [mem EXCEPT ![c].snapshots = Append(ResetParent(snap, p), entry)]
         /\ items' = Append(CountOffspring(SubSeq(items, 1, numEntries), snap, p), header)
  /\ Goto(c, "publish")
  /\ UNCHANGED <<numEntries, updatedSeq, corpusLock, call, cursor, curr, key, used, child, unwanted, history>>

\* A header laid down right behind n headers of a list that has at most one more.
LEMMA LayIsAppend ==
  ASSUME NEW hdrs \in Seq(Header), NEW n \in Nat, n <= Len(hdrs), Len(hdrs) <= n + 1,
         NEW snap \in Seq(Entry), NEW p \in Nat, NEW h \in Header
  PROVE  Lay(CountOffspring(hdrs, snap, p), n + 1, h)
           = Append(CountOffspring(SubSeq(hdrs, 1, n), snap, p), h)
<1> DEFINE base == SubSeq(hdrs, 1, n)
           all == CountOffspring(hdrs, snap, p)
           part == CountOffspring(base, snap, p)
<1>1. base \in Seq(Header) /\ Len(base) = n /\ \A i \in 1..n : base[i] = hdrs[i]
  OBVIOUS
<1>2. ASSUME NEW i \in 1..n PROVE all[i] = part[i]
  <2>1. i \in 1..Len(hdrs) /\ i \in 1..Len(base) /\ base[i] = hdrs[i]
    BY <1>1
  <2> HIDE DEF base
  <2>2. QED
    BY <2>1 DEF CountOffspring
<1>3. /\ all \in Seq(Header) /\ Len(all) = Len(hdrs)
      /\ part \in Seq(Header) /\ Len(part) = n
  BY <1>1, CountOffspringType
<1> HIDE DEF all, part, base
<1>4. Lay(all, n + 1, h) = [j \in 1..(n + 1) |-> IF j = n + 1 THEN h ELSE Slot(all, j)]
  <2>1. (IF n + 1 > Len(all) THEN n + 1 ELSE Len(all)) = n + 1
    BY <1>3
  <2>2. QED
    BY <2>1 DEF Lay
<1>5. \A j \in 1..(n + 1) : j # n + 1 => j \in 1..n /\ Slot(all, j) = part[j]
  BY <1>2, <1>3, SlotType
<1>6. /\ Lay(all, n + 1, h) \in Seq(Header) /\ Len(Lay(all, n + 1, h)) = n + 1
      /\ \A j \in 1..(n + 1) : Lay(all, n + 1, h)[j] = IF j = n + 1 THEN h ELSE part[j]
  <2>1. Lay(all, n + 1, h) \in [1..(n + 1) -> Header]
    BY <1>3, <1>4, SlotType
  <2>2. n + 1 \in Nat
    OBVIOUS
  <2>3. Lay(all, n + 1, h) \in Seq(Header) /\ Len(Lay(all, n + 1, h)) = n + 1
    BY <2>1, <2>2, FunctionIsSeq
  <2>4. QED
    BY <1>4, <1>5, <2>3
<1>7. /\ Append(part, h) \in Seq(Header) /\ Len(Append(part, h)) = n + 1
      /\ \A j \in 1..(n + 1) : Append(part, h)[j] = IF j = n + 1 THEN h ELSE part[j]
  BY <1>3
<1>8. Lay(all, n + 1, h) = Append(part, h)
  BY <1>6, <1>7, SeqEqual
<1>9. QED
  BY <1>8 DEF all, part, base

LEMMA AddWritePlain ==
  ASSUME BaseInv, NEW c \in Tracees, AddWrite(c)
  PROVE  PlainAddWrite(c)
<1> DEFINE snap == mem[c].snapshots
           p == IF used[c] THEN mem[c].lastItem ELSE 0
           header == [key |-> key[c], parent |-> p, mut |-> 0, direct |-> 0, desc |-> 0,
                      anc |-> AncestorDepth(snap, p)]
<1>1. /\ c \in Spaces /\ mem[c] \in Local /\ items \in Seq(Header) /\ numEntries \in Nat
      /\ numEntries <= Len(items) /\ Len(items) <= numEntries + 1 /\ key[c] \in AnyKey
  BY DEF Spaces, BaseInv, DataInv, DataType, Laid, ControlInv, ControlType, AnyKey
<1>2. snap \in Seq(Entry) /\ p \in Nat
  BY <1>1 DEF Local
<1>3. header \in Header
  <2>0. 0 \in Counter
    BY BoundsAssumption DEF Counter
  <2>1. AncestorDepth(snap, p) \in Nat
    BY <1>2, AncestorDepthType
  <2> HIDE DEF snap, p
  <2>2. QED
    BY <1>1, <1>2, <2>0, <2>1 DEF Header
<1>4. mem[c].nextItem = numEntries
  BY AdderAtEnd DEF BaseInv, DataInv, AddWrite, Checked
<1> HIDE DEF header, snap, p
<1>5. Lay(CountOffspring(items, snap, p), mem[c].nextItem + 1, header)
        = Append(CountOffspring(SubSeq(items, 1, numEntries), snap, p), header)
  BY <1>1, <1>2, <1>3, <1>4, LayIsAppend
<1>6. QED
  BY <1>5 DEF AddWrite, PlainAddWrite, snap, p, header

LEMMA InitObjectPlain ==
  ASSUME items \in Seq(Header), numEntries \in Nat, numEntries <= Len(items)
  PROVE  InitObject = IF UninitSeq = updatedSeq
                      THEN Blank
                      ELSE [Blank EXCEPT
                              !.first = TRUE, !.attached = TRUE,
                              !.snapshots = [i \in 1..numEntries |-> Mirror(items[i], i)],
                              !.seenKeys = {items[i].key : i \in 1..numEntries},
                              !.nextIndex = numEntries,
                              !.nextItem = numEntries,
                              !.lastSeq = updatedSeq]
<1>1. \A i \in 1..numEntries : Slot(items, i) = items[i]
  BY SlotType
<1>2. /\ [i \in 1..numEntries |-> Mirror(Slot(items, i), i)]
           = [i \in 1..numEntries |-> Mirror(items[i], i)]
      /\ {Slot(items, i).key : i \in 1..numEntries} = {items[i].key : i \in 1..numEntries}
  BY <1>1
<1>3. QED
  BY <1>2 DEF InitObject

-----------------------------------------------------------------------------
(* Uniqueness of feedback keys.  What makes the second SeenFeedback           *)
(* sufficient: inside the section a process has recorded every published key, *)
(* because nobody else can publish, and next_item_index never points past     *)
(* what was recorded, so SyncInner leaves nothing out.                        *)

\* Every key published at a position up to n is recorded in space s.
Recorded(s, n) == \A i \in 1..n : items[i].key \in mem[s].seenKeys

\* SeenIsMirrored and UniqueFeedbackKeys without their premise.
AllSeen ==
  \A s \in Spaces :
    /\ mem[s].nextIndex <= numEntries
    /\ \A i \in 1..mem[s].nextIndex : items[i].key \in mem[s].seenKeys

KeysDiffer == \A i, j \in 1..numEntries : items[i].key = items[j].key => i = j

KeyInv ==
  /\ AllSeen
  /\ \A t \in Threads : pc[t] = "sync" => cursor[t] <= numEntries /\ Recorded(Space(t), cursor[t])
  /\ \A c \in Tracees : Checked(c) => Recorded(c, numEntries)
  /\ \A c \in Tracees : pc[c] = "publish" => \A i \in 1..numEntries : items[i].key # key[c]
  /\ KeysDiffer

LEMMA KeyInit == Init => KeyInv
<1> SUFFICES ASSUME Init PROVE KeyInv
  OBVIOUS
<1>1. \A t \in Threads : pc[t] \in {"spawn", "idle", "dead"}
  BY DEF Init, FreshPc
<1>2. numEntries = 0 /\ Tracees \subseteq Threads
  BY DEF Init, Threads, MainThreads
<1>3. \A s \in Spaces : mem[s].nextIndex = 0
  BY <1>2 DEF Init, FreshMem, InitObject, Blank
<1>4. AllSeen
  BY <1>2, <1>3 DEF AllSeen
<1>5. QED
  BY <1>1, <1>2, <1>4 DEF KeyInv, Checked, KeysDiffer

\* A quiet step keeps the keys of the published items, so it is enough to look at
\* what it does to the mirrors and to the threads.
LEMMA KeyFrame ==
  ASSUME BaseInv, KeyInv, Quiet,
         \A s \in Spaces : /\ mem'[s].nextIndex <= numEntries
                           /\ \A i \in 1..mem'[s].nextIndex : items[i].key \in mem'[s].seenKeys,
         mem' \in [Spaces -> Local],
         \A t \in Threads : pc'[t] = "sync" =>
            /\ cursor'[t] \in Nat
            /\ cursor'[t] <= numEntries
            /\ \A i \in 1..cursor'[t] : items[i].key \in mem'[Space(t)].seenKeys,
         \A c \in Tracees : Checked(c)' =>
            \A i \in 1..numEntries : items[i].key \in mem'[c].seenKeys,
         \A c \in Tracees : pc'[c] = "publish" =>
            \A i \in 1..numEntries : items[i].key # key'[c]
  PROVE  KeyInv'
<1>1. numEntries \in Nat /\ numEntries' = numEntries
  BY DEF BaseInv, DataInv, DataType, Quiet
<1>2. \A i \in 1..numEntries : items'[i].key = items[i].key
  BY DEF Quiet
<1>3. \A s \in Spaces : mem'[s].nextIndex \in Nat
  BY DEF Local
<1>4. AllSeen'
  BY <1>1, <1>2, <1>3 DEF AllSeen
<1>5. \A t \in Threads : pc'[t] = "sync" =>
         /\ cursor'[t] <= numEntries'
         /\ \A i \in 1..cursor'[t] : items'[i].key \in mem'[Space(t)].seenKeys
  BY <1>1, <1>2
<1>6. \A c \in Tracees : Checked(c)' =>
         \A i \in 1..numEntries' : items'[i].key \in mem'[c].seenKeys
  BY <1>1, <1>2
<1>7. \A c \in Tracees : pc'[c] = "publish" => \A i \in 1..numEntries' : items'[i].key # key'[c]
  BY <1>1, <1>2
<1>8. KeysDiffer'
  BY <1>1, <1>2 DEF KeyInv, KeysDiffer
<1>9. QED
  BY <1>4, <1>5, <1>6, <1>7, <1>8 DEF KeyInv, Recorded, Space

\* A quiet step that leaves the mirrors' extents alone and enters no protected place.
LEMMA KeyStill ==
  ASSUME BaseInv, KeyInv, Quiet, mem' \in [Spaces -> Local],
         \A s \in Spaces : /\ mem'[s].nextIndex = mem[s].nextIndex
                           /\ mem'[s].seenKeys = mem[s].seenKeys,
         \A t \in Threads : pc'[t] = "sync" => pc[t] = "sync" /\ cursor'[t] = cursor[t],
         \A c \in Tracees : Checked(c)' => Checked(c),
         \A c \in Tracees : pc'[c] = "publish" => pc[c] = "publish" /\ key'[c] = key[c]
  PROVE  KeyInv'
<1>1. \A t \in Threads : Space(t) \in Spaces /\ cursor[t] \in Nat
  BY DEF Space, Spaces, Threads, MainThreads, BaseInv, ControlInv, ControlType
<1>2. Tracees \subseteq Spaces
  BY DEF Spaces
<1>3. \A s \in Spaces : /\ mem'[s].nextIndex <= numEntries
                        /\ \A i \in 1..mem'[s].nextIndex : items[i].key \in mem'[s].seenKeys
  BY DEF KeyInv, AllSeen
<1>4. \A t \in Threads : pc'[t] = "sync" =>
            /\ cursor'[t] \in Nat
            /\ cursor'[t] <= numEntries
            /\ \A i \in 1..cursor'[t] : items[i].key \in mem'[Space(t)].seenKeys
  BY <1>1 DEF KeyInv, Recorded
<1>5. \A c \in Tracees : Checked(c)' =>
            \A i \in 1..numEntries : items[i].key \in mem'[c].seenKeys
  BY <1>2 DEF KeyInv, Recorded
<1>6. \A c \in Tracees : pc'[c] = "publish" =>
            \A i \in 1..numEntries : items[i].key # key'[c]
  BY DEF KeyInv
<1>7. QED
  BY <1>3, <1>4, <1>5, <1>6, KeyFrame

LEMMA KeyCall ==
  ASSUME BaseInv, KeyInv, NEW t \in Threads, CallStep(t)
  PROVE  KeyInv'
<1>0. /\ DataType' /\ Quiet
      /\ DataInv /\ ControlInv /\ Locking
  BY DataCall DEF BaseInv, DataInv, Kept
<1>1. /\ mem' \in [Spaces -> Local] /\ mem \in [Spaces -> Local]
      /\ pc \in [Threads -> Places] /\ call \in [Threads -> Calls] /\ cursor \in [Threads -> Nat]
      /\ numEntries \in Nat /\ Space(t) \in Spaces /\ Tracees \subseteq Threads
  BY <1>0 DEF DataInv, DataType, ControlInv, ControlType, Space, Spaces, Threads, MainThreads
<1> DEFINE s == Space(t)
<1>8. ASSUME NEW o \in Local, o.seenKeys = mem[s].seenKeys, o.nextIndex = mem[s].nextIndex,
             BeginMerge(t, o), UNCHANGED <<key, call>>
      PROVE  KeyInv'
  <2>1. /\ pc' = [pc EXCEPT ![t] = "sync"] /\ cursor' = [cursor EXCEPT ![t] = o.nextIndex]
        /\ mem' = [mem EXCEPT ![s] = [o EXCEPT !.lastSeq = updatedSeq]]
    BY <1>8 DEF BeginMerge, Goto
  <2>2. /\ mem'[s].seenKeys = o.seenKeys /\ mem'[s].nextIndex = o.nextIndex
        /\ \A r \in Spaces : r # s => mem'[r] = mem[r]
    BY <1>1, <2>1 DEF Local
  <2>3. \A r \in Spaces : mem'[r].nextIndex = mem[r].nextIndex /\ mem'[r].seenKeys = mem[r].seenKeys
    BY <1>8, <2>2
  <2>4. \A r \in Spaces : /\ mem'[r].nextIndex <= numEntries
                          /\ \A i \in 1..mem'[r].nextIndex : items[i].key \in mem'[r].seenKeys
    BY <2>3 DEF KeyInv, AllSeen
  <2>5. ASSUME NEW u \in Threads, pc'[u] = "sync"
        PROVE  /\ cursor'[u] \in Nat /\ cursor'[u] <= numEntries
               /\ \A i \in 1..cursor'[u] : items[i].key \in mem'[Space(u)].seenKeys
    <3>1. Space(u) \in Spaces
      BY DEF Space, Spaces, Threads, MainThreads
    <3>2. CASE u = t
      <4>1. cursor'[u] = mem'[s].nextIndex /\ o.nextIndex \in Nat
        BY <1>1, <2>1, <2>2, <3>2 DEF Local
      <4>2. QED
        BY <1>1, <2>2, <2>4, <3>2, <4>1
    <3>3. CASE u # t
      BY <1>1, <2>1, <2>3, <2>5, <3>1, <3>3 DEF KeyInv, Recorded
    <3>4. QED
      BY <3>2, <3>3
  <2>6. \A c \in Tracees : Checked(c)' => Checked(c) /\ c \in Spaces
    BY <1>1, <1>8, <2>1 DEF Checked, Spaces
  <2>7. \A c \in Tracees : Checked(c)' =>
            \A i \in 1..numEntries : items[i].key \in mem'[c].seenKeys
    BY <2>3, <2>6 DEF KeyInv, Recorded
  <2>8. \A c \in Tracees : pc'[c] = "publish" => \A i \in 1..numEntries : items[i].key # key'[c]
    BY <1>1, <1>8, <2>1 DEF KeyInv
  <2>9. QED
    BY <1>0, <1>1, <2>4, <2>5, <2>7, <2>8, KeyFrame
<1>2. CASE SyncCheck(t)
  <2>1. UNCHANGED <<mem, cursor, key>>
    BY <1>2 DEF SyncCheck
  <2>2. \E w \in Places \ {"sync", "held", "publish"} : pc' = [pc EXCEPT ![t] = w]
    BY <1>2 DEF SyncCheck, Enter, Goto, Return, Places
  <2>3. \A u \in Threads : u # t => call'[u] = call[u] /\ pc'[u] = pc[u]
    BY <1>1, <1>2 DEF SyncCheck, Enter, Goto
  <2>4. QED
    BY <1>0, <1>1, <2>1, <2>2, <2>3, KeyStill DEF Checked
<1>3. CASE Acquire(t)
  <2>1. CASE call[t] \in {"SyncCounters", "IncUnwanted"}
    <3>1. UNCHANGED <<mem, cursor, key, call>> /\ pc' = [pc EXCEPT ![t] = "held"]
      BY <1>3, <2>1 DEF Acquire, Goto
    <3>2. \A c \in Tracees : Checked(c)' => Checked(c)
      BY <1>1, <2>1, <3>1 DEF Checked
    <3>3. QED
      BY <1>0, <1>1, <3>1, <3>2, KeyStill
  <2>2. CASE call[t] \notin {"SyncCounters", "IncUnwanted"} /\ mem[s].attached
    <3>1. BeginMerge(t, mem[s]) /\ UNCHANGED <<key, call>>
      BY <1>3, <2>2 DEF Acquire, Object
    <3>2. QED
      BY <1>1, <1>8, <3>1
  <2>3. CASE call[t] \notin {"SyncCounters", "IncUnwanted"} /\ ~mem[s].attached
    <3>1. /\ UNCHANGED <<key, call, cursor>> /\ pc' = [pc EXCEPT ![t] = "attach"]
          /\ mem' = [mem EXCEPT ![s] = [mem[s] EXCEPT !.attached = TRUE, !.snapshots = <<>>,
                                                      !.nextIndex = 0, !.nextItem = 0]]
      BY <1>1, <1>3, <2>3 DEF Acquire, Goto, Object, Local
    <3>2. /\ mem'[s].seenKeys = mem[s].seenKeys /\ mem'[s].nextIndex = 0
          /\ \A r \in Spaces : r # s => mem'[r] = mem[r]
      BY <1>1, <3>1 DEF Local
    <3>3. \A r \in Spaces : /\ mem'[r].nextIndex <= numEntries
                            /\ \A i \in 1..mem'[r].nextIndex : items[i].key \in mem'[r].seenKeys
      BY <1>1, <3>2 DEF KeyInv, AllSeen
    <3>4. \A r \in Spaces : mem'[r].seenKeys = mem[r].seenKeys
      BY <3>2
    <3>5. \A u \in Threads : /\ Space(u) \in Spaces
                             /\ pc'[u] \in {"sync", "held", "publish"} => pc'[u] = pc[u]
      BY <1>1, <3>1 DEF Space, Spaces, Threads, MainThreads
    <3>6. \A u \in Threads : pc'[u] = "sync" =>
            /\ cursor'[u] \in Nat /\ cursor'[u] <= numEntries
            /\ \A i \in 1..cursor'[u] : items[i].key \in mem'[Space(u)].seenKeys
      BY <1>1, <3>1, <3>4, <3>5 DEF KeyInv, Recorded
    <3>7. \A c \in Tracees : Checked(c)' => Checked(c) /\ c \in Spaces
      BY <1>1, <3>1, <3>5 DEF Checked, Spaces
    <3>8. \A c \in Tracees : Checked(c)' =>
            \A i \in 1..numEntries : items[i].key \in mem'[c].seenKeys
      BY <3>4, <3>7 DEF KeyInv, Recorded
    <3>9. \A c \in Tracees : pc'[c] = "publish" => \A i \in 1..numEntries : items[i].key # key'[c]
      BY <1>1, <3>1, <3>5 DEF KeyInv
    <3>10. QED
      BY <1>0, <1>1, <3>3, <3>6, <3>8, <3>9, KeyFrame
  <2>4. QED
    BY <2>1, <2>2, <2>3
<1>9. CASE Attach(t)
  <2> DEFINE o == [mem[s] EXCEPT !.first = TRUE]
  <2>1. o \in Local /\ o.seenKeys = mem[s].seenKeys /\ o.nextIndex = mem[s].nextIndex
    BY <1>1 DEF Local
  <2>2. BeginMerge(t, o) /\ UNCHANGED <<key, call>>
    BY <1>9 DEF Attach, Object
  <2> HIDE DEF o
  <2>3. QED
    BY <1>8, <2>1, <2>2
<1>4. CASE SyncItem(t)
  <2> DEFINE n == cursor[t] + 1
  <2>1. /\ UNCHANGED <<pc, call, key>> /\ pc[t] = "sync"
        /\ cursor' = [cursor EXCEPT ![t] = n] /\ n <= numEntries /\ n \in Nat
        /\ mem' = [mem EXCEPT
                     ![s].snapshots = Append(mem[s].snapshots, Mirror(items[n], n)),
                     ![s].seenKeys = mem[s].seenKeys \cup {items[n].key}]
    <3>1. PlainSyncItem(t)
      BY <1>4, SyncItemPlain
    <3>2. mem[s] \in Local
      BY <1>1
    <3>3. QED
      BY <1>1, <3>1, <3>2 DEF PlainSyncItem, Local
  <2>2. /\ \A r \in Spaces : /\ mem'[r].nextIndex = mem[r].nextIndex
                             /\ mem[r].seenKeys \subseteq mem'[r].seenKeys
        /\ items[n].key \in mem'[s].seenKeys
    BY <1>1, <2>1 DEF Local
  <2>3. \A r \in Spaces : /\ mem'[r].nextIndex <= numEntries
                          /\ \A i \in 1..mem'[r].nextIndex : items[i].key \in mem'[r].seenKeys
    BY <2>2 DEF KeyInv, AllSeen
  <2>4. ASSUME NEW u \in Threads, pc'[u] = "sync"
        PROVE  /\ cursor'[u] \in Nat /\ cursor'[u] <= numEntries
               /\ \A i \in 1..cursor'[u] : items[i].key \in mem'[Space(u)].seenKeys
    <3>1. Space(u) \in Spaces
      BY DEF Space, Spaces, Threads, MainThreads
    <3>2. /\ cursor[u] <= numEntries
          /\ \A i \in 1..cursor[u] : items[i].key \in mem'[Space(u)].seenKeys
      BY <2>1, <2>2, <2>4, <3>1 DEF KeyInv, Recorded
    <3>3. CASE u = t
      <4>1. cursor'[u] = n
        BY <1>1, <2>1, <3>3
      <4>2. \A i \in 1..n : i \in 1..cursor[t] \/ i = n
        BY <1>1
      <4>3. QED
        BY <2>1, <2>2, <3>2, <3>3, <4>1, <4>2
    <3>4. CASE u # t
      BY <1>1, <2>1, <3>2, <3>4
    <3>5. QED
      BY <3>3, <3>4
  <2>5. \A c \in Tracees : Checked(c)' =>
            \A i \in 1..numEntries : items[i].key \in mem'[c].seenKeys
    BY <2>1, <2>2 DEF KeyInv, Recorded, Checked, Spaces
  <2>6. \A c \in Tracees : pc'[c] = "publish" => \A i \in 1..numEntries : items[i].key # key'[c]
    BY <2>1 DEF KeyInv
  <2>7. QED
    BY <1>0, <1>1, <2>3, <2>4, <2>5, <2>6, KeyFrame
<1>5. CASE SyncIndex(t)
  <2>1. /\ UNCHANGED <<call, key, cursor>> /\ pc[t] = "sync" /\ cursor[t] >= numEntries
        /\ pc' = [pc EXCEPT ![t] = "pointer"]
    BY <1>5 DEF SyncIndex, Goto
  <2>2. cursor[t] = numEntries /\ \A i \in 1..numEntries : items[i].key \in mem[s].seenKeys
    BY <1>1, <2>1 DEF KeyInv, Recorded
  <2>3. \A r \in Spaces : /\ mem'[r].seenKeys = mem[r].seenKeys
                          /\ mem'[r].nextIndex = IF r = s THEN numEntries ELSE mem[r].nextIndex
    <3>1. mem' = [mem EXCEPT ![s] = [mem[s] EXCEPT !.nextIndex = numEntries]]
      BY <1>1, <1>5, <2>2 DEF SyncIndex, Local
    <3>2. QED
      BY <1>1, <3>1 DEF Local
  <2>4. \A r \in Spaces : /\ mem'[r].nextIndex <= numEntries
                          /\ \A i \in 1..mem'[r].nextIndex : items[i].key \in mem'[r].seenKeys
    BY <1>1, <2>2, <2>3 DEF KeyInv, AllSeen
  <2>5. \A u \in Threads : /\ Space(u) \in Spaces
                           /\ pc'[u] \in {"sync", "held", "publish"} => pc'[u] = pc[u]
    BY <1>1, <2>1 DEF Space, Spaces, Threads, MainThreads
  <2>6. \A u \in Threads : pc'[u] = "sync" =>
          /\ cursor'[u] \in Nat /\ cursor'[u] <= numEntries
          /\ \A i \in 1..cursor'[u] : items[i].key \in mem'[Space(u)].seenKeys
    BY <1>1, <2>1, <2>3, <2>5 DEF KeyInv, Recorded
  <2>7. \A c \in Tracees : Checked(c)' => Checked(c) /\ c \in Spaces
    BY <1>1, <2>1, <2>5 DEF Checked, Spaces
  <2>8. \A c \in Tracees : Checked(c)' => \A i \in 1..numEntries : items[i].key \in mem'[c].seenKeys
    BY <2>3, <2>7 DEF KeyInv, Recorded
  <2>9. \A c \in Tracees : pc'[c] = "publish" => \A i \in 1..numEntries : items[i].key # key'[c]
    BY <1>1, <2>1, <2>5 DEF KeyInv
  <2>10. QED
    BY <1>0, <1>1, <2>4, <2>6, <2>8, <2>9, KeyFrame
<1>10. CASE SyncEnd(t)
  <2>1. /\ UNCHANGED <<call, key>> /\ pc[t] = "pointer"
        /\ \E w \in {"held", "unlock"} : pc' = [pc EXCEPT ![t] = w]
        /\ \A u \in Threads : u # t => cursor'[u] = cursor[u]
    BY <1>1, <1>10 DEF SyncEnd, Goto
  <2>2. mem[s].nextIndex = numEntries
    BY <2>1 DEF BaseInv, DataInv, Aligned
  <2>3. \A r \in Spaces : /\ mem'[r].seenKeys = mem[r].seenKeys
                          /\ mem'[r].nextIndex = mem[r].nextIndex
    <3> DEFINE snap == FlushFrom(items, mem[s].snapshots)
    <3>1. mem' = [mem EXCEPT ![s] = [mem[s] EXCEPT !.nextItem = curr[t], !.snapshots = snap]]
      BY <1>1, <1>10 DEF SyncEnd, Local
    <3> HIDE DEF snap
    <3>2. QED
      BY <1>1, <3>1 DEF Local
  <2>4. \A r \in Spaces : /\ mem'[r].nextIndex <= numEntries
                          /\ \A i \in 1..mem'[r].nextIndex : items[i].key \in mem'[r].seenKeys
    BY <1>1, <2>3 DEF KeyInv, AllSeen
  <2>5. \A u \in Threads : pc'[u] = "sync" =>
          /\ cursor'[u] \in Nat /\ cursor'[u] <= numEntries
          /\ \A i \in 1..cursor'[u] : items[i].key \in mem'[Space(u)].seenKeys
    <3>1. \A u \in Threads : /\ Space(u) \in Spaces
                             /\ pc'[u] = "sync" => u # t /\ pc[u] = "sync"
      BY <1>1, <2>1 DEF Space, Spaces, Threads, MainThreads
    <3>2. QED
      BY <1>1, <2>1, <2>3, <3>1 DEF KeyInv, Recorded
  <2>6. ASSUME NEW c \in Tracees, Checked(c)'
        PROVE  \A i \in 1..numEntries : items[i].key \in mem'[c].seenKeys
    <3>1. CASE c = t
      <4>1. s = c
        BY <3>1 DEF Space
      <4>2. QED
        BY <1>1, <2>2, <2>3, <2>4, <4>1
    <3>2. CASE c # t
      <4>1. Checked(c) /\ c \in Spaces
        BY <1>1, <2>1, <2>6, <3>2 DEF Checked, Spaces
      <4>2. QED
        BY <2>3, <4>1 DEF KeyInv, Recorded
    <3>3. QED
      BY <3>1, <3>2
  <2>7. \A c \in Tracees : pc'[c] = "publish" => \A i \in 1..numEntries : items[i].key # key'[c]
    BY <1>1, <2>1 DEF KeyInv
  <2>8. QED
    BY <1>0, <1>1, <2>4, <2>5, <2>6, <2>7, KeyFrame
<1>6. CASE Release(t)
  <2>1. UNCHANGED <<mem, cursor, key>>
    BY <1>6 DEF Release
  <2>2. \E w \in Places \ {"sync", "held", "publish"} : pc' = [pc EXCEPT ![t] = w]
    BY <1>6 DEF Release, Goto, Return, Places
  <2>3. \A u \in Threads : u # t => call'[u] = call[u] /\ pc'[u] = pc[u]
    BY <1>1, <1>6 DEF Release, Goto
  <2>4. QED
    BY <1>0, <1>1, <2>1, <2>2, <2>3, KeyStill DEF Checked
<1>7. QED
  BY <1>2, <1>3, <1>4, <1>5, <1>6, <1>9, <1>10, CallStep(t) DEF CallStep

\* Laying down a header behind the published ones: its key is checked.
LEMMA KeyAddWrite ==
  ASSUME BaseInv, KeyInv, NEW c \in Tracees, AddWrite(c), Quiet, mem' \in [Spaces -> Local]
  PROVE  KeyInv'
<1>1. /\ c \in Threads /\ c \in Spaces /\ Tracees \subseteq Threads
      /\ pc \in [Threads -> Places] /\ mem \in [Spaces -> Local]
  BY DEF Threads, MainThreads, Spaces, BaseInv, ControlInv, ControlType, DataInv, DataType
<1>2. /\ pc' = [pc EXCEPT ![c] = "publish"] /\ UNCHANGED <<call, cursor, key>>
      /\ Checked(c) /\ key[c] \notin mem[c].seenKeys
  BY DEF AddWrite, SeenFeedback, Goto, Checked
<1>3. \A s \in Spaces : /\ mem'[s].seenKeys = mem[s].seenKeys
                        /\ mem'[s].nextIndex = mem[s].nextIndex
  <2> DEFINE p == IF used[c] THEN mem[c].lastItem ELSE 0
             snap == Append(ResetParent(mem[c].snapshots, p),
                            [index |-> Len(mem[c].snapshots) + 1, key |-> key[c],
                             parent |-> p, mut |-> 0, new |-> 0])
  <2>1. mem' = [mem EXCEPT ![c] = [mem[c] EXCEPT !.snapshots = snap]]
    BY <1>1 DEF AddWrite, Local
  <2> HIDE DEF snap
  <2>2. mem[c] \in Local
    BY <1>1
  <2>3. QED
    BY <1>1, <2>1, <2>2 DEF Local
<1>4. \A s \in Spaces : /\ mem'[s].nextIndex <= numEntries
                        /\ \A i \in 1..mem'[s].nextIndex : items[i].key \in mem'[s].seenKeys
  BY <1>3 DEF KeyInv, AllSeen
<1>5. \A t \in Threads : pc'[t] = "sync" =>
            /\ cursor'[t] \in Nat
            /\ cursor'[t] <= numEntries
            /\ \A i \in 1..cursor'[t] : items[i].key \in mem'[Space(t)].seenKeys
  <2>1. \A t \in Threads : Space(t) \in Spaces /\ cursor[t] \in Nat /\ (pc'[t] = "sync" => pc[t] = "sync")
    BY <1>1, <1>2 DEF Space, Spaces, Threads, MainThreads, BaseInv, ControlInv, ControlType
  <2>2. QED
    BY <1>2, <1>3, <2>1 DEF KeyInv, Recorded
<1>6. \A d \in Tracees : Checked(d)' => \A i \in 1..numEntries : items[i].key \in mem'[d].seenKeys
  <2>1. \A d \in Tracees : d \in Spaces /\ (Checked(d)' => Checked(d))
    BY <1>1, <1>2 DEF Checked, Spaces
  <2>2. QED
    BY <1>3, <2>1 DEF KeyInv, Recorded
<1>7. \A d \in Tracees : pc'[d] = "publish" => \A i \in 1..numEntries : items[i].key # key'[d]
  BY <1>1, <1>2 DEF KeyInv, Recorded
<1>8. QED
  BY <1>4, <1>5, <1>6, <1>7, KeyFrame

\* Publishing it.  Nobody else is inside the section, so nobody else relies on
\* having recorded everything.
LEMMA KeyAddPublish ==
  ASSUME BaseInv, KeyInv, NEW c \in Tracees, AddPublish(c)
  PROVE  KeyInv'
<1>1. /\ c \in Threads /\ c \in Spaces /\ Tracees \subseteq Threads
      /\ pc \in [Threads -> Places] /\ mem \in [Spaces -> Local] /\ numEntries \in Nat
      /\ cursor \in [Threads -> Nat]
  BY DEF Threads, MainThreads, Spaces, BaseInv, ControlInv, ControlType, DataInv, DataType
<1>2. /\ pc[c] = "publish" /\ pc' = [pc EXCEPT ![c] = "unlock"]
      /\ UNCHANGED <<items, call, cursor, key>> /\ numEntries' = numEntries + 1
  BY DEF AddPublish, Goto
<1>3. \A t \in Threads : InSection(t) => t = c
  BY <1>1, <1>2 DEF BaseInv, Locking, MutualExclusion, InSection
<1>4. items[numEntries + 1].key = key[c]
  BY <1>2 DEF BaseInv, DataInv, Laid
<1>5. \A i \in 1..(numEntries + 1) : i \in 1..numEntries \/ i = numEntries + 1
  BY <1>1
<1>6. mem' = [mem EXCEPT ![c] = [mem[c] EXCEPT !.lastSeq = updatedSeq + 1,
                                               !.nextIndex = numEntries + 1,
                                               !.nextItem = @ + 1,
                                               !.seenKeys = @ \cup {key[c]}]]
  BY <1>1 DEF AddPublish, Local
<1>7. /\ mem'[c].nextIndex = numEntries + 1 /\ mem'[c].seenKeys = mem[c].seenKeys \cup {key[c]}
      /\ \A s \in Spaces : s # c => mem'[s] = mem[s]
  <2>1. mem[c] \in Local
    BY <1>1
  <2>2. QED
    BY <1>1, <1>6, <2>1 DEF Local
<1>8. \A i \in 1..numEntries : items[i].key \in mem[c].seenKeys /\ items[i].key # key[c]
  BY <1>2 DEF KeyInv, Checked, Recorded
<1>9. AllSeen'
  <2> SUFFICES ASSUME NEW s \in Spaces
               PROVE  /\ mem'[s].nextIndex <= numEntries + 1
                      /\ \A i \in 1..mem'[s].nextIndex : items[i].key \in mem'[s].seenKeys
    BY <1>2 DEF AllSeen
  <2>1. CASE s = c
    BY <1>1, <1>4, <1>5, <1>7, <1>8, <2>1
  <2>2. CASE s # c
    <3>1. mem'[s] = mem[s] /\ mem[s].nextIndex \in Nat
      BY <1>1, <1>7, <2>2 DEF Local
    <3>2. QED
      BY <1>1, <3>1 DEF KeyInv, AllSeen
  <2>3. QED
    BY <2>1, <2>2
<1>10. \A t \in Threads : pc'[t] # "sync"
  BY <1>1, <1>2, <1>3 DEF InSection
<1>11. \A d \in Tracees : ~Checked(d)' /\ pc'[d] # "publish"
  BY <1>1, <1>2, <1>3 DEF InSection, Checked
<1>12. KeysDiffer'
  BY <1>1, <1>2, <1>4, <1>5, <1>8 DEF KeyInv, KeysDiffer
<1>13. QED
  BY <1>9, <1>10, <1>11, <1>12 DEF KeyInv

LEMMA KeyTracee ==
  ASSUME BaseInv, KeyInv, NEW c \in Tracees, TraceeStep(c)
  PROVE  KeyInv'
<1>0. /\ c \in Threads /\ c \in Spaces /\ Tracees \subseteq Threads
      /\ pc \in [Threads -> Places] /\ mem \in [Spaces -> Local] /\ mem[c] \in Local
      /\ call \in [Threads -> Calls] /\ key \in [Tracees -> Keys \cup {None}]
  BY DEF Threads, MainThreads, Spaces, BaseInv, ControlInv, ControlType, DataInv, DataType
<1>1. mem' \in [Spaces -> Local] /\ (Quiet \/ AddPublish(c))
  BY DataTracee DEF BaseInv, DataInv, DataType, Kept
<1>2. CASE CallStep(c)
  BY <1>0, <1>2, KeyCall
<1>3. CASE AddPublish(c)
  BY <1>3, KeyAddPublish
<1>4. CASE Quiet /\ AddWrite(c)
  BY <1>1, <1>4, KeyAddWrite
<1>5. ASSUME Quiet, UNCHANGED <<cursor, key>>,
             \E w \in Places \ {"sync", "held", "publish"} : pc' = [pc EXCEPT ![c] = w],
             \A d \in Tracees : d # c => call'[d] = call[d],
             \A s \in Spaces : /\ mem'[s].nextIndex = mem[s].nextIndex
                               /\ mem'[s].seenKeys = mem[s].seenKeys
      PROVE  KeyInv'
  BY <1>0, <1>1, <1>5, KeyStill DEF Checked
<1>6. CASE Quiet /\ (CreateInput(c) \/ GetItem(c) \/ SyncCounters(c))
  <2>1. UNCHANGED <<mem, cursor, key>>
    BY <1>6 DEF CreateInput, GetItem, SyncCounters
  <2>2. \E w \in {"target", "pick", "wait", "enter"}, l \in Calls :
          pc' = [pc EXCEPT ![c] = w] /\ call' = [call EXCEPT ![c] = l]
    BY <1>6 DEF CreateInput, GetItem, SyncCounters, Enter, Goto, Calls
  <2>3. QED
    BY <1>0, <1>5, <1>6, <2>1, <2>2 DEF Places
<1>7. CASE Quiet /\ (NothingNew(c) \/ AddSeen(c) \/ CountersNull(c))
  <2>1. /\ UNCHANGED <<mem, cursor, key, call>>
        /\ \E w \in {"loop", "unlock", "crashed"} : pc' = [pc EXCEPT ![c] = w]
    BY <1>7 DEF NothingNew, AddSeen, CountersNull, Goto
  <2>2. QED
    BY <1>5, <1>7, <2>1 DEF Places
<1>8. CASE Quiet /\ \E k \in Keys : FoundCoverage(c, k)
  <2>1. PICK k \in Keys : FoundCoverage(c, k)
    BY <1>8
  <2>2. /\ \A s \in Spaces : mem'[s] = mem[s]
        /\ UNCHANGED cursor
        /\ \E w \in {"loop", "wait"} : pc' = [pc EXCEPT ![c] = w]
        /\ \A d \in Tracees : d # c => call'[d] = call[d] /\ key'[d] = key[d]
    BY <1>0, <2>1 DEF FoundCoverage, Enter, Goto
  <2>3. QED
    BY <1>0, <1>1, <1>8, <2>2, KeyStill DEF Checked
<1>9. CASE Quiet /\ PickItem(c)
  <2>1. /\ UNCHANGED <<cursor, key>> /\ pc' = [pc EXCEPT ![c] = "target"]
        /\ \A d \in Tracees : d # c => call'[d] = call[d]
    BY <1>0, <1>9 DEF PickItem, Enter, Goto
  <2>2. PICK i \in 1..Len(mem[c].snapshots) :
          mem' = [mem EXCEPT ![c].lastItem = i,
                             ![c].snapshots[i].new = (@ + 1) % (MaxCount + 1)]
    BY <1>9 DEF PickItem
  <2>3. \E snap : mem' = [mem EXCEPT ![c] = [mem[c] EXCEPT !.lastItem = i, !.snapshots = snap]]
    BY <1>0, <2>2 DEF Local
  <2>4. \A s \in Spaces : /\ mem'[s].nextIndex = mem[s].nextIndex
                          /\ mem'[s].seenKeys = mem[s].seenKeys
    BY <1>0, <2>3 DEF Local
  <2>5. QED
    BY <1>5, <1>9, <2>1, <2>4 DEF Places
<1>10. CASE Quiet /\ CountersHeld(c)
  <2>1. /\ UNCHANGED <<cursor, key, call>> /\ pc' = [pc EXCEPT ![c] = "unlock"]
    BY <1>0, <1>10 DEF CountersHeld, Goto
  <2>2. \E snap : mem' = [mem EXCEPT ![c] = [mem[c] EXCEPT !.snapshots = snap]]
    BY <1>0, <1>10 DEF CountersHeld, Local
  <2>3. \A s \in Spaces : /\ mem'[s].nextIndex = mem[s].nextIndex
                          /\ mem'[s].seenKeys = mem[s].seenKeys
    BY <1>0, <2>2 DEF Local
  <2>4. QED
    BY <1>5, <1>10, <2>1, <2>3 DEF Places
<1>11. QED
  BY <1>1, <1>2, <1>3, <1>4, <1>6, <1>7, <1>8, <1>9, <1>10, TraceeStep(c) DEF TraceeStep

LEMMA KeyMonitor ==
  ASSUME BaseInv, KeyInv, NEW m \in Monitors, MonitorStep(m)
  PROVE  KeyInv'
<1>0. /\ m \in Threads /\ m \notin Tracees /\ Tracees \subseteq Threads
      /\ Main \in Spaces /\ Tracees \subseteq Spaces /\ Main \notin Tracees
      /\ \A t \in Threads : Space(t) \in Spaces
      /\ pc \in [Threads -> Places] /\ mem \in [Spaces -> Local] /\ numEntries \in Nat
      /\ call \in [Threads -> Calls] /\ cursor \in [Threads -> Nat]
  BY ActorsAssumption DEF Threads, MainThreads, Spaces, Space, BaseInv, ControlInv, ControlType, DataInv, DataType
<1>1. mem' \in [Spaces -> Local] /\ Quiet
  BY DataMonitor DEF BaseInv, DataInv, DataType, Kept
<1>2. CASE CallStep(m)
  BY <1>0, <1>2, KeyCall
<1>3. ASSUME NEW c \in Tracees,
             mem'[c] = mem[Main] \/ mem'[c].nextIndex = 0,
             \A s \in Spaces : s # c => mem'[s] = mem[s],
             \A t \in Threads : t # c => cursor'[t] = cursor[t],
             \A t \in Threads : pc'[t] \in {"sync", "held", "publish"} => pc'[t] = pc[t] /\ t # c,
             \A d \in Tracees : d # c => key'[d] = key[d] /\ call'[d] = call[d]
      PROVE  KeyInv'
  <2>1. \A s \in Spaces : /\ mem'[s].nextIndex <= numEntries
                          /\ \A i \in 1..mem'[s].nextIndex : items[i].key \in mem'[s].seenKeys
    <3> TAKE s \in Spaces
    <3>1. CASE s # c
      BY <1>3, <3>1 DEF KeyInv, AllSeen
    <3>2. CASE s = c /\ mem'[c] = mem[Main]
      BY <1>0, <3>2 DEF KeyInv, AllSeen
    <3>3. CASE s = c /\ mem'[c].nextIndex = 0
      BY <1>0, <3>3
    <3>4. QED
      BY <1>3, <3>1, <3>2, <3>3
  <2>2. ASSUME NEW t \in Threads, pc'[t] = "sync"
        PROVE  /\ cursor'[t] \in Nat /\ cursor'[t] <= numEntries
               /\ \A i \in 1..cursor'[t] : items[i].key \in mem'[Space(t)].seenKeys
    <3>1. t # c /\ pc[t] = "sync" /\ cursor'[t] = cursor[t] /\ cursor[t] \in Nat
      BY <1>0, <1>3, <2>2
    <3>2. Space(t) \in Spaces /\ Space(t) # c
      BY <1>0, <1>3, <3>1 DEF Space
    <3>3. QED
      BY <1>3, <3>1, <3>2 DEF KeyInv, Recorded
  <2>3. \A d \in Tracees : Checked(d)' =>
            \A i \in 1..numEntries : items[i].key \in mem'[d].seenKeys
    <3>1. \A d \in Tracees : Checked(d)' => Checked(d) /\ d # c /\ d \in Spaces
      BY <1>0, <1>3 DEF Checked
    <3>2. QED
      BY <1>3, <3>1 DEF KeyInv, Recorded
  <2>4. \A d \in Tracees : pc'[d] = "publish" => \A i \in 1..numEntries : items[i].key # key'[d]
    BY <1>0, <1>3 DEF KeyInv
  <2>5. QED
    BY <1>1, <2>1, <2>2, <2>3, <2>4, KeyFrame
<1>4. ASSUME NEW c \in Tracees, Fork(m, c) PROVE KeyInv'
  <2>1. /\ mem' = [mem EXCEPT ![c] = mem[Main]] /\ UNCHANGED <<cursor, key>>
        /\ pc' = [pc EXCEPT ![m] = "watch", ![c] = "enter"]
        /\ call' = [call EXCEPT ![c] = "Sync"]
    BY <1>4 DEF Fork
  <2>2. QED
    BY <1>0, <1>3, <2>1
<1>5. ASSUME NEW c \in Tracees, HandleException(m, c) PROVE KeyInv'
  <2>1. /\ mem' = [mem EXCEPT ![c] = Blank]
        /\ cursor' = [cursor EXCEPT ![c] = 0] /\ key' = [key EXCEPT ![c] = None]
        /\ \E w \in {"enter", "wait"} : pc' = [pc EXCEPT ![c] = "dead", ![m] = w]
        /\ \E w \in Calls : call' = [call EXCEPT ![c] = None, ![m] = w]
    BY <1>5 DEF HandleException, Reap, Calls
  <2>2. mem'[c].nextIndex = 0
    BY <1>0, <2>1 DEF Blank
  <2>3. QED
    BY <1>0, <1>3, <2>1, <2>2
<1>6. CASE UnwantedHeld(m)
  <2>1. /\ mem' = [mem EXCEPT ![Main] = [mem[Main] EXCEPT !.lastSeq = updatedSeq + 1]]
        /\ pc' = [pc EXCEPT ![m] = "unlock"] /\ UNCHANGED <<call, cursor, key>>
    BY <1>0, <1>6 DEF UnwantedHeld, Goto, Local
  <2>2. \A s \in Spaces : /\ mem'[s].nextIndex = mem[s].nextIndex
                          /\ mem'[s].seenKeys = mem[s].seenKeys
    BY <1>0, <2>1 DEF Local
  <2>3. QED
    BY <1>0, <1>1, <2>1, <2>2, KeyStill DEF Checked
<1>7. CASE UnwantedNull(m)
  <2>1. /\ UNCHANGED <<mem, call, cursor, key>>
        /\ pc' = [t \in Threads |-> IF t \in MainThreads THEN "segv" ELSE pc[t]]
    BY <1>7 DEF UnwantedNull, Segv
  <2>2. QED
    BY <1>0, <1>1, <2>1, KeyStill DEF Checked
<1>8. QED
  BY <1>2, <1>4, <1>5, <1>6, <1>7, MonitorStep(m) DEF MonitorStep

LEMMA KeyStatus ==
  ASSUME BaseInv, KeyInv, NEW s \in Printers, StatusStep(s)
  PROVE  KeyInv'
<1>0. /\ s \in Threads /\ s \notin Tracees /\ Tracees \subseteq Threads
      /\ pc \in [Threads -> Places] /\ call \in [Threads -> Calls]
  BY ActorsAssumption DEF Threads, MainThreads, BaseInv, ControlInv, ControlType
<1>1. mem' \in [Spaces -> Local] /\ Quiet
  BY DataStatus DEF BaseInv, DataInv, DataType, Kept
<1>2. CASE CallStep(s)
  BY <1>0, <1>2, KeyCall
<1>3. CASE PrintStatus(s)
  BY <1>0, <1>1, <1>3, KeyStill DEF PrintStatus, Enter, Goto, Checked
<1>4. CASE PrintDecay(s)
  <2>1. UNCHANGED <<mem, call, cursor, key>>
    BY <1>4 DEF PrintDecay
  <2>2. \A t \in Threads : pc'[t] \in {"segv", "idle"} \/ pc'[t] = pc[t]
    BY <1>0, <1>4 DEF PrintDecay, Segv, Goto
  <2>3. QED
    BY <1>0, <1>1, <2>1, <2>2, KeyStill DEF Checked
<1>5. QED
  BY <1>2, <1>3, <1>4, StatusStep(s) DEF StatusStep

LEMMA KeyFault ==
  ASSUME BaseInv, KeyInv, Fault
  PROVE  KeyInv'
<1>0. /\ Tracees \subseteq Threads /\ Tracees \subseteq Spaces /\ Main \notin Tracees
      /\ \A t \in Threads : Space(t) \in Spaces
      /\ pc \in [Threads -> Places] /\ mem \in [Spaces -> Local] /\ numEntries \in Nat
      /\ cursor \in [Threads -> Nat]
  BY ActorsAssumption DEF Threads, MainThreads, Spaces, Space, BaseInv, ControlInv, ControlType, DataInv, DataType
<1>1. mem' \in [Spaces -> Local] /\ Quiet
  BY DataFault DEF BaseInv, DataInv, DataType, Kept
<1>2. ASSUME NEW c \in Tracees, Crash(c) PROVE KeyInv'
  <2>1. UNCHANGED <<mem, call, cursor, key>> /\ pc' = [pc EXCEPT ![c] = "crashed"]
    BY <1>2 DEF Crash, Goto
  <2>2. QED
    BY <1>0, <1>1, <2>1, KeyStill DEF Checked
<1>3. ASSUME NEW m \in Monitors, NEW c \in Tracees, Kill(m, c) PROVE KeyInv'
  <2>1. /\ mem' = [mem EXCEPT ![c] = Blank] /\ m \in Threads /\ m \notin Tracees
        /\ cursor' = [cursor EXCEPT ![c] = 0] /\ key' = [key EXCEPT ![c] = None]
        /\ pc' = [pc EXCEPT ![c] = "dead", ![m] = "spawn"] /\ call' = [call EXCEPT ![c] = None]
    BY <1>3, ActorsAssumption DEF Kill, Reap, Threads, MainThreads
  <2>2. \A t \in Threads : pc'[t] \in {"sync", "held", "publish"} => pc'[t] = pc[t] /\ t # c
    BY <1>0, <2>1
  <2>3. \A s \in Spaces : /\ mem'[s].nextIndex <= numEntries
                          /\ \A i \in 1..mem'[s].nextIndex : items[i].key \in mem'[s].seenKeys
    <3>1. mem'[c].nextIndex = 0
      BY <1>0, <2>1 DEF Blank
    <3>2. QED
      BY <1>0, <2>1, <3>1 DEF KeyInv, AllSeen
  <2>4. ASSUME NEW t \in Threads, pc'[t] = "sync"
        PROVE  /\ cursor'[t] \in Nat /\ cursor'[t] <= numEntries
               /\ \A i \in 1..cursor'[t] : items[i].key \in mem'[Space(t)].seenKeys
    <3>1. t # c /\ pc[t] = "sync" /\ cursor'[t] = cursor[t]
      BY <1>0, <2>1, <2>2, <2>4
    <3>2. Space(t) \in Spaces /\ Space(t) # c
      BY <1>0, <3>1 DEF Space
    <3>3. QED
      BY <1>0, <2>1, <3>1, <3>2 DEF KeyInv, Recorded
  <2>5. \A d \in Tracees : Checked(d)' =>
            \A i \in 1..numEntries : items[i].key \in mem'[d].seenKeys
    <3>1. \A d \in Tracees : Checked(d)' => Checked(d) /\ d # c /\ d \in Spaces
      BY <1>0, <2>1, <2>2 DEF Checked
    <3>2. QED
      BY <1>0, <2>1, <3>1 DEF KeyInv, Recorded
  <2>6. \A d \in Tracees : pc'[d] = "publish" => \A i \in 1..numEntries : items[i].key # key'[d]
    BY <1>0, <2>1, <2>2 DEF KeyInv
  <2>7. QED
    BY <1>1, <2>3, <2>4, <2>5, <2>6, KeyFrame
<1>4. CASE Restart
  <2>1. mem' = FreshMem /\ pc' = FreshPc
    BY <1>4 DEF Restart
  <2>2. \A t \in Threads : pc'[t] \notin {"sync", "held", "publish"}
    BY <2>1 DEF FreshPc
  <2>3. /\ InitObject.nextIndex \in {0, numEntries}
        /\ InitObject.nextIndex = 0 \/ InitObject.seenKeys = {items[i].key : i \in 1..numEntries}
    <3>1. CASE UninitSeq = updatedSeq
      BY <3>1 DEF InitObject, Blank
    <3>2. CASE UninitSeq # updatedSeq
      <4> DEFINE snap == [i \in 1..numEntries |-> Mirror(items[i], i)]
                 seen == {items[i].key : i \in 1..numEntries}
      <4>1. InitObject = [Blank EXCEPT !.first = TRUE, !.attached = TRUE, !.snapshots = snap,
                            !.seenKeys = seen, !.nextIndex = numEntries,
                            !.nextItem = numEntries, !.lastSeq = updatedSeq]
        BY <3>2, InitObjectPlain DEF BaseInv, DataInv, DataType, Laid
      <4> HIDE DEF snap, seen
      <4>2. InitObject.nextIndex = numEntries /\ InitObject.seenKeys = seen
        BY <4>1 DEF Blank
      <4>3. QED
        BY <4>2 DEF seen
    <3>3. QED
      BY <3>1, <3>2
  <2>4. Blank.nextIndex = 0
    BY DEF Blank
  <2>5. \A s \in Spaces : /\ mem'[s].nextIndex <= numEntries
                          /\ \A i \in 1..mem'[s].nextIndex : items[i].key \in mem'[s].seenKeys
    <3> TAKE s \in Spaces
    <3>1. mem'[s] = InitObject \/ mem'[s] = Blank
      BY <2>1 DEF FreshMem
    <3>2. QED
      BY <1>0, <2>3, <2>4, <3>1
  <2>6. QED
    BY <1>0, <1>1, <2>2, <2>5, KeyFrame DEF Checked
<1>5. QED
  BY <1>2, <1>3, <1>4, Fault DEF Fault

LEMMA KeyStep == BaseInv /\ KeyInv /\ [Next]_vars => KeyInv'
<1> SUFFICES ASSUME BaseInv, KeyInv, [Next]_vars PROVE KeyInv'
  OBVIOUS
<1>1. CASE UNCHANGED vars
  BY <1>1 DEF KeyInv, AllSeen, Recorded, Checked, KeysDiffer, Space,
              vars, shared, control
<1>2. QED
  BY <1>1, KeyTracee, KeyMonitor, KeyStatus, KeyFault DEF Next

KeysSound == Sound /\ (split \/ KeyInv)

LEMMA KeysSoundInit == Init => KeysSound
BY SoundInit, KeyInit DEF KeysSound

LEMMA KeysSoundStep == KeysSound /\ [Next]_vars => KeysSound'
BY SoundStep, SplitStays, KeyStep DEF KeysSound, Sound

LEMMA KeyFacts == KeysSound => UniqueFeedbackKeys /\ SeenIsMirrored
BY DEF KeysSound, KeyInv, AllSeen, KeysDiffer, UniqueFeedbackKeys, SeenIsMirrored

\* No feedback key is published twice, for any number of processes, monitors,
\* keys, crashes, kills and restarts, until a tracee is forked between the two
\* stores that end SyncInner: the unlocked SeenFeedback of
\* AddRandSnapshotIfNotSeen is only an optimisation, the locked one decides.
THEOREM KeysAreUnique == Spec => []UniqueFeedbackKeys
BY KeysSoundInit, KeysSoundStep, KeyFacts, PTL DEF Spec

\* No process ever believes to mirror more than is published, or forgets the key
\* of something it has mirrored, also when fork copies a half-done SyncInner, but
\* for a copy taken between the two stores at its end.
THEOREM MirrorsAreSound == Spec => []SeenIsMirrored
BY KeysSoundInit, KeysSoundStep, KeyFacts, PTL DEF Spec

-----------------------------------------------------------------------------
(* The published keys implement the abstract corpus: AddPublish is Discover,  *)
(* a fork between the stores that end SyncInner is Spoil, and every other     *)
(* step, the faults included, is a stutter.                                   *)

LEMMA PublishedKeysAre ==
  DataInv => PublishedKeys = [i \in 1..numEntries |-> items[i].key]
<1> SUFFICES ASSUME DataInv PROVE PublishedKeys = [i \in 1..numEntries |-> items[i].key]
  OBVIOUS
<1>1. \A i \in 1..numEntries : Slot(items, i) = items[i]
  BY SlotType DEF DataInv, DataType, Laid
<1>2. QED
  BY <1>1 DEF PublishedKeys

LEMMA QuietStutters ==
  ASSUME DataInv, DataInv', Quiet PROVE UNCHANGED PublishedKeys
<1>1. PublishedKeys = [i \in 1..numEntries |-> items[i].key]
  BY PublishedKeysAre
<1>2. (DataInv => PublishedKeys = [i \in 1..numEntries |-> items[i].key])'
  BY PublishedKeysAre, PTL
<1>3. QED
  BY <1>1, <1>2 DEF Quiet

LEMMA PublishIsDiscover ==
  ASSUME BaseInv, BaseInv', KeyInv, NEW c \in Tracees, AddPublish(c)
  PROVE  Abstract!Discover(key[c])
<1> DEFINE n == numEntries
<1>1. /\ n \in Nat /\ numEntries' = n + 1 /\ items' = items /\ pc[c] = "publish"
      /\ items[n + 1].key = key[c]
  BY DEF AddPublish, BaseInv, DataInv, DataType, Laid
<1>2. \A i \in 1..n : items[i].key # key[c]
  BY <1>1 DEF KeyInv
<1>3. PublishedKeys = [i \in 1..n |-> items[i].key]
  BY PublishedKeysAre DEF BaseInv
<1>4. key[c] \notin Abstract!KnownKeys
  <2>1. Len(PublishedKeys) = n /\ \A i \in 1..n : PublishedKeys[i] # key[c]
    BY <1>1, <1>2, <1>3
  <2>2. QED
    BY <2>1 DEF Abstract!KnownKeys
<1>5. PublishedKeys' = [i \in 1..(n + 1) |-> items[i].key]
  <2>1. (DataInv => PublishedKeys = [i \in 1..numEntries |-> items[i].key])'
    BY PublishedKeysAre, PTL
  <2>2. QED
    BY <1>1, <2>1 DEF BaseInv
<1>6. Append(PublishedKeys, key[c]) = [i \in 1..(n + 1) |-> items[i].key]
  <2> DEFINE k == [i \in 1..n |-> items[i].key]
  <2>1. PublishedKeys = k /\ k \in Seq({items[i].key : i \in 1..n})
    BY <1>1, <1>3, FunctionIsSeq
  <2>2. /\ Append(k, key[c]) \in Seq({items[i].key : i \in 1..n} \cup {key[c]})
        /\ Len(Append(k, key[c])) = n + 1
        /\ \A i \in 1..n : Append(k, key[c])[i] = items[i].key
        /\ Append(k, key[c])[n + 1] = items[n + 1].key
    BY <1>1, <2>1
  <2>3. QED
    BY <1>1, <2>1, <2>2
<1>7. ~split /\ ~split'
  BY DEF BaseInv, DataInv, Aligned
<1>8. QED
  BY <1>4, <1>5, <1>6, <1>7 DEF Abstract!Discover

LEMMA StepRefines ==
  KeysSound /\ [Next]_vars => [Abstract!Next]_<<PublishedKeys, split>>
<1> SUFFICES ASSUME KeysSound, [Next]_vars
             PROVE  Abstract!Next \/ UNCHANGED <<PublishedKeys, split>>
  OBVIOUS
<1>1. CASE split'
  BY <1>1 DEF Abstract!Next, Abstract!Spoil
<1>2. CASE ~split'
  <2>1. BaseInv /\ KeyInv /\ BaseInv' /\ split' = split
    <3>1. split \in BOOLEAN /\ split' \in BOOLEAN /\ ~split
      BY <1>2, SplitStays, TypeStep DEF KeysSound, Sound, TypeInv, ControlInv, ControlType
    <3>2. BaseInv /\ KeyInv
      BY <3>1 DEF KeysSound, Sound
    <3>3. QED
      BY <1>2, <3>1, <3>2, BaseStep
  <2>2. CASE Quiet
    BY <2>1, <2>2, QuietStutters DEF BaseInv
  <2>3. ASSUME NEW c \in Tracees, AddPublish(c) PROVE Abstract!Next
    <3>1. key[c] \in Keys
      BY <2>1, <2>3 DEF AddPublish, BaseInv, ControlInv, Adding, Threads, MainThreads
    <3>2. QED
      BY <2>1, <2>3, <3>1, PublishIsDiscover DEF Abstract!Next
  <2>4. CASE UNCHANGED vars
    BY <2>4 DEF PublishedKeys, vars, shared, history
  <2>5. Quiet \/ (\E c \in Tracees : AddPublish(c)) \/ UNCHANGED vars
    BY <2>1, DataTracee, DataMonitor, DataStatus, DataFault DEF Next, BaseInv, DataInv, Kept
  <2>6. QED
    BY <2>2, <2>3, <2>4, <2>5
<1>3. QED
  BY <1>1, <1>2

LEMMA InitRefines == Init => Abstract!Init
BY DEF Init, Abstract!Init, PublishedKeys

\* The shared corpus is the abstract one, whatever the interleaving of processes
\* and whichever of them crash, are killed or start again, until a tracee is
\* forked between the two stores that end SyncInner.
THEOREM CorpusIsImplemented == Spec => ImplementsFeedbackCorpus
BY KeysSoundInit, KeysSoundStep, InitRefines, StepRefines, PTL
   DEF Spec, ImplementsFeedbackCorpus, Abstract!Spec

-----------------------------------------------------------------------------
(* The operators on headers and entries leave keys, parents and positions.  *)

\* The first n headers are the same but for their counters.
HeadersKept(old, new, n) ==
  \A i \in 1..n : new[i].key = old[i].key /\ new[i].parent = old[i].parent

\* Two lists of local entries are the same but for their counters.
EntriesKept(old, new) ==
  /\ Len(new) = Len(old)
  /\ \A i \in 1..Len(old) : /\ new[i].index = old[i].index
                            /\ new[i].key = old[i].key
                            /\ new[i].parent = old[i].parent

LEMMA FlushToKeeps ==
  ASSUME NEW hdrs \in Seq(Header), NEW snap \in Seq(Entry)
  PROVE  HeadersKept(hdrs, FlushTo(hdrs, snap), Len(hdrs))
<1>1. ASSUME NEW i \in 1..Len(hdrs)
      PROVE  /\ FlushTo(hdrs, snap)[i].key = hdrs[i].key
             /\ FlushTo(hdrs, snap)[i].parent = hdrs[i].parent
  <2>1. hdrs[i] \in Header
    OBVIOUS
  <2>2. QED
    BY <2>1 DEF FlushTo, Header
<1>2. QED
  BY <1>1 DEF HeadersKept

LEMMA FlushFromKeeps ==
  ASSUME NEW hdrs \in Seq(Header), NEW snap \in Seq(Entry)
  PROVE  EntriesKept(snap, FlushFrom(hdrs, snap))
<1>1. ASSUME NEW i \in 1..Len(snap)
      PROVE  /\ FlushFrom(hdrs, snap)[i].index = snap[i].index
             /\ FlushFrom(hdrs, snap)[i].key = snap[i].key
             /\ FlushFrom(hdrs, snap)[i].parent = snap[i].parent
  <2>1. snap[i] \in Entry
    OBVIOUS
  <2>2. QED
    BY <2>1 DEF FlushFrom, Entry
<1>2. Len(FlushFrom(hdrs, snap)) = Len(snap)
  <2>1. DOMAIN FlushFrom(hdrs, snap) = 1..Len(snap) /\ Len(snap) \in Nat
    BY DEF FlushFrom
  <2>2. FlushFrom(hdrs, snap) \in Seq(Entry)
    BY FlushFromType
  <2>3. QED
    BY <2>1, <2>2, LenProperties
<1>3. QED
  BY <1>1, <1>2 DEF EntriesKept

LEMMA ResetParentKeeps ==
  ASSUME NEW snap \in Seq(Entry), NEW p \in Nat
  PROVE  EntriesKept(snap, ResetParent(snap, p))
<1>1. ASSUME NEW i \in 1..Len(snap)
      PROVE  /\ ResetParent(snap, p)[i].index = snap[i].index
             /\ ResetParent(snap, p)[i].key = snap[i].key
             /\ ResetParent(snap, p)[i].parent = snap[i].parent
  <2>1. snap[i] \in Entry
    OBVIOUS
  <2>2. QED
    BY <2>1 DEF ResetParent, Entry
<1>2. Len(ResetParent(snap, p)) = Len(snap)
  <2>1. DOMAIN ResetParent(snap, p) = 1..Len(snap) /\ Len(snap) \in Nat
    BY DEF ResetParent
  <2>2. ResetParent(snap, p) \in Seq(Entry)
    BY ResetParentType
  <2>3. QED
    BY <2>1, <2>2, LenProperties
<1>3. QED
  BY <1>1, <1>2 DEF EntriesKept

LEMMA CountOffspringKeeps ==
  ASSUME NEW hdrs \in Seq(Header), NEW snap, NEW p
  PROVE  HeadersKept(hdrs, CountOffspring(hdrs, snap, p), Len(hdrs))
<1>1. ASSUME NEW i \in 1..Len(hdrs)
      PROVE  /\ CountOffspring(hdrs, snap, p)[i].key = hdrs[i].key
             /\ CountOffspring(hdrs, snap, p)[i].parent = hdrs[i].parent
  <2>1. hdrs[i] \in Header
    OBVIOUS
  <2> DEFINE d == hdrs[i].direct + (IF i = p THEN 1 ELSE 0)
             e == hdrs[i].desc + (IF i \in Ancestors(snap, p) THEN 1 ELSE 0)
  <2>2. CountOffspring(hdrs, snap, p)[i] = [hdrs[i] EXCEPT !.direct = d, !.desc = e]
    BY DEF CountOffspring
  <2> HIDE DEF d, e
  <2>3. QED
    BY <2>1, <2>2 DEF Header
<1>2. QED
  BY <1>1 DEF HeadersKept

-----------------------------------------------------------------------------
(* The invariant.  A mirror is as long as next_item_index says, except while  *)
(* a thread of its process merges (then as long as the cursor says) or has     *)
(* laid down an item that is not published yet (then longer by that item).    *)
(* The main process may stop in the middle of a merge.                        *)

\* A thread of address space s is in SyncInner's loop.
Merging(s) == \E t \in Threads : Space(t) = s /\ pc[t] = "sync"

\* The process of s has laid down an item that it has not published.
Ahead(s) == s \in Tracees /\ pc[s] = "publish"

\* The main process has read a null pointer.
Stopped(s) == s = Main /\ \A t \in MainThreads : pc[t] = "segv"

Prefix(s) == LET snap == mem[s].snapshots IN
  /\ Len(snap) <= Len(items)
  /\ \A i \in 1..Len(snap) :
       /\ snap[i].index = i
       /\ snap[i].key = items[i].key
       /\ snap[i].parent = items[i].parent

Extent(s) == LET n == Len(mem[s].snapshots) IN
  /\ \A t \in Threads : Space(t) = s /\ pc[t] = "sync" => n = cursor[t]
  /\ Ahead(s) => n = numEntries + 1
  /\ ~Merging(s) /\ ~Ahead(s) => n = mem[s].nextIndex \/ (Stopped(s) /\ n <= numEntries)

SpaceInv(s) == Prefix(s) /\ Extent(s)

MirrorInv == \A s \in Spaces : Whole(s) => SpaceInv(s)

LEMMA MirrorInit == Init => MirrorInv
<1> SUFFICES ASSUME Init PROVE MirrorInv
  OBVIOUS
<1>1. \A t \in Threads : pc[t] \in {"spawn", "idle", "dead"}
  BY DEF Init, FreshPc
<1>2. items = <<>> /\ numEntries = 0 /\ Len(items) = 0 /\ Tracees \subseteq Threads
  BY DEF Init, Threads, MainThreads
<1>3. ASSUME NEW s \in Spaces
      PROVE  Len(mem[s].snapshots) = 0 /\ mem[s].nextIndex = 0
  <2>1. mem[s] = InitObject \/ mem[s] = Blank
    BY <1>3 DEF Init, FreshMem
  <2>2. Len(<<>>) = 0
    OBVIOUS
  <2>3. Len(Blank.snapshots) = 0 /\ Blank.nextIndex = 0
    BY <2>2 DEF Blank
  <2>4. Len(InitObject.snapshots) = 0 /\ InitObject.nextIndex = 0
    <3>1. CASE UninitSeq = updatedSeq
      BY <2>3, <3>1 DEF InitObject
    <3>2. CASE UninitSeq # updatedSeq
      <4> DEFINE none == [i \in 1..0 |-> Mirror(Slot(items, i), i)]
      <4>1. none = <<>>
        OBVIOUS
      <4>2. InitObject.snapshots = none /\ InitObject.nextIndex = 0
        BY <1>2, <3>2 DEF InitObject, Blank
      <4>3. QED
        BY <2>2, <4>1, <4>2
    <3>3. QED
      BY <3>1, <3>2
  <2>5. QED
    BY <2>1, <2>3, <2>4
<1>4. QED
  BY <1>1, <1>2, <1>3 DEF MirrorInv, SpaceInv, Prefix, Extent, Ahead

-----------------------------------------------------------------------------
(* What a step may do to a space without changing what its mirror holds.    *)

ObjectKept(old, new) ==
  /\ new.nextIndex = old.nextIndex
  /\ EntriesKept(old.snapshots, new.snapshots)

ThreadKept(t) ==
  /\ pc'[t] = "sync" <=> pc[t] = "sync"
  /\ pc[t] = "sync" => cursor'[t] = cursor[t]
  /\ pc[t] = "segv" => pc'[t] = "segv"

SpaceKept(s) ==
  /\ ObjectKept(mem[s], mem'[s])
  /\ Len(mem[s].snapshots) <= Len(items')
  /\ HeadersKept(items, items', Len(mem[s].snapshots))
  /\ \A t \in Threads : Space(t) = s => ThreadKept(t)
  /\ Ahead(s)' <=> Ahead(s)
  /\ numEntries' \in Nat /\ numEntries <= numEntries'
  /\ Ahead(s) => numEntries' = numEntries

LEMMA SpaceFrame ==
  ASSUME BaseInv, NEW s \in Spaces, SpaceInv(s), SpaceKept(s)
  PROVE  SpaceInv(s)'
<1>1. Prefix(s)'
  BY DEF SpaceInv, Prefix, SpaceKept, ObjectKept, EntriesKept, HeadersKept
<1>2. Merging(s)' <=> Merging(s)
  BY DEF Merging, SpaceKept, ThreadKept, Space
<1>3. \A t \in Threads : Space(t)' = Space(t)
  BY DEF Space
<1>4. Extent(s)'
  <2>1. Stopped(s) => Stopped(s)'
    BY ActorsAssumption DEF Stopped, SpaceKept, ThreadKept, Threads, MainThreads, Space
  <2>2. Len(mem[s].snapshots) \in Nat /\ numEntries \in Nat
    BY DEF BaseInv, DataInv, DataType, Local
  <2>3. Len(mem'[s].snapshots) = Len(mem[s].snapshots) /\ mem'[s].nextIndex = mem[s].nextIndex
    BY DEF SpaceKept, ObjectKept, EntriesKept
  <2>4. QED
    BY <1>2, <1>3, <2>1, <2>2, <2>3 DEF SpaceInv, Extent, SpaceKept, ThreadKept
<1>5. QED
  BY <1>1, <1>4 DEF SpaceInv

\* A step that matters to one space r only.
LEMMA MirrorOne ==
  ASSUME BaseInv, MirrorInv, NEW r \in Spaces,
         Whole(r)' => SpaceInv(r)',
         \A s \in Spaces : s # r /\ Whole(s)' => Whole(s) /\ SpaceKept(s)
  PROVE  MirrorInv'
BY SpaceFrame DEF MirrorInv

\* A step that matters to no space.
StepKept ==
  /\ numEntries' = numEntries
  /\ Len(items') = Len(items)
  /\ HeadersKept(items, items', Len(items))
  /\ \A s \in Spaces : ObjectKept(mem[s], mem'[s])
  /\ \A t \in Threads : ThreadKept(t)
  /\ \A c \in Tracees : /\ pc'[c] = "publish" <=> pc[c] = "publish"
                        /\ Whole(c)' => Whole(c)

LEMMA MirrorStill ==
  ASSUME BaseInv, MirrorInv, StepKept
  PROVE  MirrorInv'
<1>1. ASSUME NEW s \in Spaces, Whole(s)' PROVE SpaceInv(s)'
  <2>1. Whole(s) /\ SpaceInv(s)
    BY <1>1 DEF MirrorInv, StepKept, Whole
  <2>2. Len(mem[s].snapshots) <= Len(items)
    BY <2>1 DEF SpaceInv, Prefix
  <2>3. Len(mem[s].snapshots) \in Nat /\ Len(items) \in Nat /\ numEntries \in Nat
    BY DEF BaseInv, DataInv, DataType, Local
  <2>4. HeadersKept(items, items', Len(mem[s].snapshots))
    BY <2>2, <2>3 DEF StepKept, HeadersKept
  <2>5. SpaceKept(s)
    BY <2>2, <2>3, <2>4 DEF StepKept, SpaceKept, Ahead
  <2>6. QED
    BY <2>1, <2>5, SpaceFrame
<1>2. QED
  BY <1>1 DEF MirrorInv

LEMMA SameObject == \A o : ObjectKept(o, o)
BY DEF ObjectKept, EntriesKept

LEMMA SameHeaders == \A h, n : HeadersKept(h, h, n)
BY DEF HeadersKept
-----------------------------------------------------------------------------
(* The calls into the object.                                              *)

\* The loop begins where the object's index says, and so does the mirror end.
LEMMA MirrorMerge ==
  ASSUME BaseInv, MirrorInv, NEW t \in Threads, NEW o \in Local, BeginMerge(t, o),
         o.snapshots = Object(t).snapshots, o.nextIndex = Object(t).nextIndex,
         pc[t] \in {"wait", "attach"}, \A u \in Threads : InSection(u) => u = t,
         UNCHANGED <<items, numEntries, torn>>
  PROVE  MirrorInv'
<1> DEFINE s == Space(t)
<1>1. /\ mem \in [Spaces -> Local] /\ s \in Spaces /\ Tracees \subseteq Threads
      /\ pc \in [Threads -> Places] /\ cursor \in [Threads -> Nat] /\ numEntries \in Nat
      /\ \A c \in Tracees : Space(c) = c
      /\ \A r \in Spaces : Len(mem[r].snapshots) \in Nat
  BY DEF BaseInv, DataInv, DataType, ControlInv, ControlType, Space, Spaces, Threads, MainThreads, Local
<1>2. /\ pc' = [pc EXCEPT ![t] = "sync"] /\ cursor' = [cursor EXCEPT ![t] = o.nextIndex]
      /\ mem' = [mem EXCEPT ![s] = [o EXCEPT !.lastSeq = updatedSeq]]
  BY DEF BeginMerge, Goto
<1>3. /\ mem'[s].snapshots = mem[s].snapshots /\ mem'[s].nextIndex = mem[s].nextIndex
      /\ \A r \in Spaces : r # s => mem'[r] = mem[r]
  BY <1>1, <1>2 DEF Local, Object
<1>4. \A u \in Threads : /\ pc[u] \notin {"sync", "publish"} /\ pc'[u] # "publish"
                         /\ pc'[u] = "sync" <=> u = t
  BY <1>1, <1>2 DEF InSection
<1>5. ASSUME Whole(s)' PROVE SpaceInv(s)'
  <2>1. SpaceInv(s)
    BY <1>1, <1>5 DEF MirrorInv, Whole
  <2>2. ~Stopped(s)
    BY ActorsAssumption DEF Stopped, Space, Threads
  <2>3. Len(mem[s].snapshots) = mem[s].nextIndex
    BY <1>1, <1>4, <2>1, <2>2 DEF SpaceInv, Extent, Merging, Ahead
  <2>4. Prefix(s)'
    BY <1>3, <2>1 DEF SpaceInv, Prefix
  <2>5. \A u \in Threads : Space(u)' = Space(u)
    BY DEF Space
  <2>6. Merging(s)' /\ ~Ahead(s)'
    BY <1>1, <1>4, <2>5 DEF Merging, Ahead
  <2>7. \A u \in Threads : pc'[u] = "sync" => cursor'[u] = mem'[s].nextIndex
    BY <1>1, <1>2, <1>3, <1>4 DEF Object
  <2>8. Extent(s)'
    BY <1>3, <2>3, <2>6, <2>7 DEF Extent
  <2>9. QED
    BY <2>4, <2>8 DEF SpaceInv
<1>6. ASSUME NEW r \in Spaces, r # s, Whole(r)' PROVE Whole(r) /\ SpaceKept(r)
  <2>1. Whole(r) /\ SpaceInv(r)
    BY <1>6 DEF MirrorInv, Whole
  <2>2. \A u \in Threads : Space(u) = r => ThreadKept(u)
    BY <1>1, <1>2, <1>6 DEF ThreadKept
  <2>3. ~Ahead(r) /\ ~Ahead(r)'
    BY <1>1, <1>4 DEF Ahead
  <2>4. QED
    BY <1>1, <1>3, <1>6, <2>1, <2>2, <2>3, SameObject, SameHeaders DEF SpaceKept, SpaceInv, Prefix
<1>7. QED
  BY <1>1, <1>5, <1>6, MirrorOne

LEMMA MirrorAcquire ==
  ASSUME BaseInv, MirrorInv, NEW t \in Threads, Acquire(t)
  PROVE  MirrorInv'
<1> DEFINE s == Space(t)
<1>1. /\ mem \in [Spaces -> Local] /\ s \in Spaces /\ mem[s] \in Local
      /\ pc \in [Threads -> Places] /\ numEntries \in Nat /\ items \in Seq(Header)
      /\ Tracees \subseteq Threads /\ \A c \in Tracees : Space(c) = c
  BY DEF BaseInv, DataInv, DataType, ControlInv, ControlType, Space, Spaces, Threads, MainThreads
<1>2. /\ UNCHANGED <<items, numEntries, torn>> /\ pc[t] = "wait"
      /\ \A u \in Threads : ~InSection(u)
  BY DEF Acquire, shared, history, BaseInv, Locking, MutualExclusion
<1>3. CASE call[t] \in {"SyncCounters", "IncUnwanted"}
  <2>1. UNCHANGED <<mem, cursor>> /\ pc' = [pc EXCEPT ![t] = "held"]
    BY <1>3 DEF Acquire, Goto
  <2>2. StepKept
    BY <1>1, <1>2, <2>1, SameObject, SameHeaders DEF StepKept, ThreadKept, Whole
  <2>3. QED
    BY <2>2, MirrorStill
<1>4. CASE call[t] \notin {"SyncCounters", "IncUnwanted"} /\ mem[s].attached
  <2>1. BeginMerge(t, Object(t)) /\ Object(t) \in Local
    BY <1>1, <1>4 DEF Acquire, Object
  <2>2. QED
    BY <1>2, <2>1, MirrorMerge
<1>5. CASE call[t] \notin {"SyncCounters", "IncUnwanted"} /\ ~mem[s].attached
  <2>1. /\ UNCHANGED cursor /\ pc' = [pc EXCEPT ![t] = "attach"]
        /\ mem' = [mem EXCEPT ![s] = [mem[s] EXCEPT !.attached = TRUE, !.snapshots = <<>>,
                                                    !.nextIndex = 0, !.nextItem = 0]]
    BY <1>1, <1>5 DEF Acquire, Goto, Object, Local
  <2>2. /\ mem'[s].snapshots = <<>> /\ mem'[s].nextIndex = 0
        /\ \A r \in Spaces : r # s => mem'[r] = mem[r]
    BY <1>1, <2>1 DEF Local
  <2>3. \A u \in Threads : pc'[u] \notin {"sync", "publish"} /\ pc[u] \notin {"sync", "publish"}
    BY <1>1, <1>2, <2>1 DEF InSection
  <2>4. SpaceInv(s)'
    <3>1. Len(mem'[s].snapshots) = 0 /\ Len(items) \in Nat
      BY <1>1, <2>2
    <3>2. ~Ahead(s)'
      BY <1>1, <2>3 DEF Ahead
    <3>3. QED
      BY <1>2, <2>2, <2>3, <3>1, <3>2 DEF SpaceInv, Prefix, Extent
  <2>5. ASSUME NEW r \in Spaces, r # s, Whole(r)' PROVE Whole(r) /\ SpaceKept(r)
    <3>1. Whole(r) /\ SpaceInv(r)
      BY <1>2, <2>5 DEF MirrorInv, Whole
    <3>2. \A u \in Threads : Space(u) = r => ThreadKept(u)
      BY <1>1, <2>1, <2>5 DEF ThreadKept
    <3>3. ~Ahead(r) /\ ~Ahead(r)'
      BY <1>1, <2>3 DEF Ahead
    <3>4. QED
      BY <1>1, <1>2, <2>2, <2>5, <3>1, <3>2, <3>3, SameObject, SameHeaders DEF SpaceKept, SpaceInv, Prefix
  <2>6. QED
    BY <1>1, <2>4, <2>5, MirrorOne
<1>6. QED
  BY <1>3, <1>4, <1>5

LEMMA MirrorAttach ==
  ASSUME BaseInv, MirrorInv, NEW t \in Threads, Attach(t)
  PROVE  MirrorInv'
<1> DEFINE o == [Object(t) EXCEPT !.first = TRUE]
<1>1. Object(t) \in Local
  BY DEF BaseInv, DataInv, DataType, Object, Space, Spaces, Threads, MainThreads
<1>2. o \in Local /\ o.snapshots = Object(t).snapshots /\ o.nextIndex = Object(t).nextIndex
  BY <1>1 DEF Local
<1>3. BeginMerge(t, o) /\ pc[t] = "attach" /\ InSection(t) /\ UNCHANGED <<items, numEntries, torn>>
  BY DEF Attach, InSection, shared, history
<1> HIDE DEF o
<1>4. \A u \in Threads : InSection(u) => u = t
  BY <1>3 DEF BaseInv, Locking, MutualExclusion
<1>5. QED
  BY <1>2, <1>3, <1>4, MirrorMerge

\* While a thread is in the section, the other spaces stay as they are.
LEMMA MirrorOthers ==
  ASSUME BaseInv, MirrorInv, NEW t \in Threads, InSection(t),
         \A u \in Threads : u # t => pc'[u] = pc[u] /\ cursor'[u] = cursor[u],
         \A s \in Spaces : s # Space(t) => mem'[s] = mem[s],
         HeadersKept(items, items', numEntries), items' \in Seq(Header), numEntries <= Len(items'),
         numEntries' \in Nat, numEntries <= numEntries', UNCHANGED torn, KeyInv
  PROVE  \A s \in Spaces : s # Space(t) /\ Whole(s)' => Whole(s) /\ SpaceKept(s)
<1> SUFFICES ASSUME NEW s \in Spaces, s # Space(t), Whole(s)'
             PROVE  Whole(s) /\ SpaceKept(s)
  OBVIOUS
<1>1. Whole(s) /\ SpaceInv(s)
  BY DEF MirrorInv, Whole
<1>2. \A u \in Threads : u # t => ~InSection(u)
  BY DEF BaseInv, Locking, MutualExclusion
<1>3. ~Merging(s) /\ ~Ahead(s) /\ ~Ahead(s)'
  <2>1. \A u \in Threads : Space(u) = s => u # t
    OBVIOUS
  <2>2. s \in Tracees => s \in Threads /\ Space(s) = s
    BY DEF Space, Threads, MainThreads
  <2>3. QED
    BY <1>2, <2>1, <2>2 DEF Merging, Ahead, InSection
<1>4. Len(mem[s].snapshots) = mem[s].nextIndex \/ Len(mem[s].snapshots) <= numEntries
  BY <1>1, <1>3 DEF SpaceInv, Extent
<1>5. mem[s].nextIndex <= numEntries
  BY DEF KeyInv, AllSeen
<1>6. numEntries \in Nat /\ Len(mem[s].snapshots) \in Nat /\ Len(items') \in Nat
  BY DEF BaseInv, DataInv, DataType, Local
<1>7. Len(mem[s].snapshots) <= Len(items') /\ HeadersKept(items, items', Len(mem[s].snapshots))
  BY <1>4, <1>5, <1>6 DEF HeadersKept
<1>8. \A u \in Threads : Space(u) = s => ThreadKept(u)
  BY DEF ThreadKept
<1>9. ObjectKept(mem[s], mem'[s])
  BY SameObject
<1>10. QED
  BY <1>1, <1>3, <1>7, <1>8, <1>9 DEF SpaceKept

LEMMA MirrorSyncItem ==
  ASSUME BaseInv, KeyInv, MirrorInv, NEW t \in Threads, SyncItem(t)
  PROVE  MirrorInv'
<1> DEFINE s == Space(t)
           n == cursor[t] + 1
<1>0. PlainSyncItem(t)
  BY SyncItemPlain
<1>1. /\ mem \in [Spaces -> Local] /\ s \in Spaces /\ mem[s] \in Local
      /\ Tracees \subseteq Threads /\ items \in Seq(Header) /\ numEntries \in Nat
      /\ cursor \in [Threads -> Nat] /\ numEntries <= Len(items)
  BY DEF BaseInv, DataInv, DataType, Laid, ControlInv, ControlType,
         Space, Spaces, Threads, MainThreads
<1>2. /\ UNCHANGED <<items, numEntries, pc, call, torn>> /\ pc[t] = "sync" /\ InSection(t)
      /\ cursor' = [cursor EXCEPT ![t] = n] /\ n <= numEntries /\ n \in Nat
  BY <1>0, <1>1 DEF PlainSyncItem, shared, history, InSection
<1>3. /\ mem'[s].snapshots = Append(mem[s].snapshots, Mirror(items[n], n))
      /\ \A r \in Spaces : r # s => mem'[r] = mem[r]
      /\ \A r \in Spaces : mem'[r].nextIndex = mem[r].nextIndex
  <2>1. \E seen : mem' = [mem EXCEPT ![s] =
          [mem[s] EXCEPT !.snapshots = Append(mem[s].snapshots, Mirror(items[n], n)),
                         !.seenKeys = seen]]
    BY <1>0, <1>1 DEF PlainSyncItem, Local
  <2>2. QED
    BY <1>1, <2>1 DEF Local
<1>4. ASSUME Whole(s)' PROVE SpaceInv(s)'
  <2> DEFINE snap == mem[s].snapshots
             entry == Mirror(items[n], n)
  <2>1. SpaceInv(s)
    BY <1>1, <1>2, <1>4 DEF MirrorInv, Whole
  <2>2. Len(snap) = cursor[t]
    BY <1>2, <2>1 DEF SpaceInv, Extent
  <2>3. snap \in Seq(Entry) /\ entry.index = n /\ entry.key = items[n].key /\ entry.parent = items[n].parent
    BY <1>1 DEF Local, Mirror
  <2>4. /\ Len(mem'[s].snapshots) = n /\ mem'[s].snapshots[n] = entry
        /\ \A i \in 1..Len(snap) : mem'[s].snapshots[i] = snap[i]
    <3> HIDE DEF snap, entry
    <3>1. mem'[s].snapshots = Append(snap, entry)
      BY <1>3 DEF snap, entry
    <3>2. QED
      BY <1>1, <1>2, <2>2, <2>3, <3>1
  <2>5. Prefix(s)'
    <3>1. n <= Len(items')
      BY <1>1, <1>2
    <3>2. ASSUME NEW i \in 1..n
          PROVE  /\ mem'[s].snapshots[i].index = i
                 /\ mem'[s].snapshots[i].key = items[i].key
                 /\ mem'[s].snapshots[i].parent = items[i].parent
      <4>1. CASE i = n
        BY <2>3, <2>4, <4>1
      <4>2. CASE i # n
        <5>1. i \in 1..Len(snap)
          BY <1>1, <1>2, <2>2, <4>2
        <5>2. QED
          BY <2>1, <2>4, <5>1 DEF SpaceInv, Prefix
      <4>3. QED
        BY <4>1, <4>2
    <3>3. QED
      BY <1>2, <2>4, <3>1, <3>2 DEF Prefix
  <2>6. \A u \in Threads : Space(u)' = Space(u)
    BY DEF Space
  <2>7. \A u \in Threads : pc[u] = "sync" => u = t
    BY <1>2 DEF BaseInv, Locking, MutualExclusion, InSection
  <2>8. Merging(s)' /\ ~Ahead(s)'
    <3>1. s \in Tracees => s = t
      BY ActorsAssumption DEF Space
    <3>2. QED
      BY <1>2, <2>6, <3>1 DEF Merging, Ahead
  <2>9. Extent(s)'
    BY <1>1, <1>2, <1>3, <2>2, <2>4, <2>7, <2>8 DEF Extent
  <2>10. QED
    BY <2>5, <2>9 DEF SpaceInv
<1>5. \A r \in Spaces : r # s /\ Whole(r)' => Whole(r) /\ SpaceKept(r)
  BY <1>1, <1>2, <1>3, MirrorOthers, SameHeaders
<1>6. QED
  BY <1>1, <1>4, <1>5, MirrorOne

\* At the end of the loop next_item_index takes over what the cursor has counted.
LEMMA MirrorSyncIndex ==
  ASSUME BaseInv, KeyInv, MirrorInv, NEW t \in Threads, SyncIndex(t)
  PROVE  MirrorInv'
<1> DEFINE s == Space(t)
<1>1. /\ mem \in [Spaces -> Local] /\ s \in Spaces /\ mem[s] \in Local
      /\ Tracees \subseteq Threads /\ items \in Seq(Header) /\ numEntries \in Nat
      /\ pc \in [Threads -> Places] /\ numEntries <= Len(items)
  BY DEF BaseInv, DataInv, DataType, Laid, ControlInv, ControlType, Space, Spaces, Threads, MainThreads
<1>2. /\ UNCHANGED <<items, numEntries, cursor, torn>> /\ pc[t] = "sync" /\ InSection(t)
      /\ pc' = [pc EXCEPT ![t] = "pointer"]
      /\ mem' = [mem EXCEPT ![s] = [mem[s] EXCEPT !.nextIndex = cursor[t]]]
  BY <1>1 DEF SyncIndex, Goto, shared, history, InSection, Local
<1>3. /\ mem'[s].snapshots = mem[s].snapshots /\ mem'[s].nextIndex = cursor[t]
      /\ \A r \in Spaces : r # s => mem'[r] = mem[r]
  BY <1>1, <1>2 DEF Local
<1>4. \A u \in Threads : u # t => ~InSection(u) /\ pc'[u] = pc[u]
  BY <1>1, <1>2 DEF BaseInv, Locking, MutualExclusion
<1>5. ASSUME Whole(s)' PROVE SpaceInv(s)'
  <2>1. SpaceInv(s) /\ Len(mem[s].snapshots) = cursor[t]
    BY <1>1, <1>2, <1>5 DEF MirrorInv, Whole, SpaceInv, Extent
  <2>2. \A u \in Threads : pc'[u] \notin {"sync", "publish"}
    BY <1>1, <1>2, <1>4 DEF InSection
  <2>3. ~Ahead(s)'
    BY <1>1, <2>2 DEF Ahead
  <2>4. QED
    BY <1>2, <1>3, <2>1, <2>2, <2>3 DEF SpaceInv, Prefix, Extent
<1>6. \A r \in Spaces : r # s /\ Whole(r)' => Whole(r) /\ SpaceKept(r)
  BY <1>1, <1>2, <1>3, <1>4, MirrorOthers, SameHeaders
<1>7. QED
  BY <1>1, <1>5, <1>6, MirrorOne

LEMMA MirrorSyncEnd ==
  ASSUME BaseInv, MirrorInv, NEW t \in Threads, SyncEnd(t)
  PROVE  MirrorInv'
<1> DEFINE s == Space(t)
           snap == mem[s].snapshots
<1>1. /\ mem \in [Spaces -> Local] /\ s \in Spaces /\ mem[s] \in Local /\ snap \in Seq(Entry)
      /\ Tracees \subseteq Threads /\ items \in Seq(Header)
      /\ cursor \in [Threads -> Nat] /\ pc \in [Threads -> Places]
  BY DEF BaseInv, DataInv, DataType, ControlInv, ControlType, Space, Spaces, Threads, MainThreads, Local
<1>2. /\ UNCHANGED <<numEntries, torn>> /\ pc[t] = "pointer"
      /\ cursor' = [cursor EXCEPT ![t] = 0] /\ items' = FlushTo(items, snap)
      /\ \E w \in {"held", "unlock"} : pc' = [pc EXCEPT ![t] = w]
      /\ mem' = [mem EXCEPT ![s] = [mem[s] EXCEPT !.nextItem = curr[t],
                                                  !.snapshots = FlushFrom(items, snap)]]
  BY <1>1 DEF SyncEnd, Goto, Object, history, Local
<1>3. HeadersKept(items, items', Len(items)) /\ Len(items') = Len(items)
  BY <1>1, <1>2, FlushToKeeps, FlushToType
<1>4. EntriesKept(snap, FlushFrom(items, snap))
  BY <1>1, FlushFromKeeps
<1>5. \A r \in Spaces : ObjectKept(mem[r], mem'[r])
  <2> DEFINE flushed == FlushFrom(items, snap)
  <2>1. mem' = [mem EXCEPT ![s] = [mem[s] EXCEPT !.nextItem = curr[t], !.snapshots = flushed]]
    BY <1>2
  <2>2. EntriesKept(snap, flushed)
    BY <1>4
  <2> HIDE DEF flushed
  <2>3. ObjectKept(mem[s], mem'[s])
    BY <1>1, <2>1, <2>2 DEF ObjectKept, Local
  <2>4. \A r \in Spaces : r # s => mem'[r] = mem[r]
    BY <1>1, <2>1
  <2>5. QED
    BY <2>3, <2>4, SameObject
<1>6. StepKept
  BY <1>1, <1>2, <1>3, <1>5 DEF StepKept, ThreadKept, Whole
<1>7. QED
  BY <1>6, MirrorStill

LEMMA MirrorCall ==
  ASSUME BaseInv, KeyInv, MirrorInv, NEW t \in Threads, CallStep(t)
  PROVE  MirrorInv'
<1>1. /\ pc \in [Threads -> Places] /\ call \in [Threads -> Calls] /\ Tracees \subseteq Threads
  BY DEF BaseInv, ControlInv, ControlType, Threads, MainThreads
<1>2. ASSUME UNCHANGED <<items, numEntries, mem, cursor, torn>>,
             \E w \in Places \ {"sync", "publish"} : pc' = [pc EXCEPT ![t] = w],
             pc[t] \notin {"sync", "publish", "segv"}
      PROVE  MirrorInv'
  <2>1. StepKept
    BY <1>1, <1>2, SameObject, SameHeaders DEF StepKept, ThreadKept, Whole
  <2>2. QED
    BY <2>1, MirrorStill
<1>3. CASE SyncCheck(t)
  <2>1. \E w \in Places \ {"sync", "publish"} : pc' = [pc EXCEPT ![t] = w]
    BY <1>3 DEF SyncCheck, Enter, Goto, Return, Places
  <2>2. /\ UNCHANGED <<items, numEntries, mem, cursor, torn>> /\ pc[t] = "enter"
    BY <1>1, <1>3 DEF SyncCheck, shared, history
  <2>3. QED
    BY <1>2, <2>1, <2>2
<1>4. CASE Release(t)
  <2>1. \E w \in Places \ {"sync", "publish"} : pc' = [pc EXCEPT ![t] = w]
    BY <1>4 DEF Release, Goto, Return, Places
  <2>2. /\ UNCHANGED <<items, numEntries, mem, cursor, torn>> /\ pc[t] = "unlock"
    BY <1>1, <1>4 DEF Release, shared, history
  <2>3. QED
    BY <1>2, <2>1, <2>2
<1>5. QED
  BY <1>3, <1>4, MirrorAcquire, MirrorAttach, MirrorSyncItem, MirrorSyncIndex, MirrorSyncEnd, CallStep(t) DEF CallStep

-----------------------------------------------------------------------------
(* The tracees.                                                            *)

LEMMA MirrorAddWrite ==
  ASSUME BaseInv, KeyInv, MirrorInv, NEW c \in Tracees, AddWrite(c)
  PROVE  MirrorInv'
<1> DEFINE snap == mem[c].snapshots
           p == IF used[c] THEN mem[c].lastItem ELSE 0
           entry == [index |-> Len(snap) + 1, key |-> key[c], parent |-> p,
                     mut |-> 0, new |-> 0]
           header == [key |-> key[c], parent |-> p, mut |-> 0, direct |-> 0, desc |-> 0,
                      anc |-> AncestorDepth(snap, p)]
           base == SubSeq(items, 1, numEntries)
           counted == CountOffspring(base, snap, p)
           reset == ResetParent(snap, p)
<1>1. /\ c \in Threads /\ c \in Spaces /\ Space(c) = c /\ mem[c] \in Local /\ mem \in [Spaces -> Local]
      /\ pc \in [Threads -> Places] /\ snap \in Seq(Entry) /\ p \in Nat
      /\ items \in Seq(Header) /\ numEntries \in Nat /\ Tracees \subseteq Threads
      /\ items' \in Seq(Header) /\ Len(items') = numEntries + 1
  <2>1. DataType' /\ Laid'
    BY DataAddWrite DEF BaseInv, DataInv, Kept
  <2>2. pc'[c] = "publish" /\ numEntries' = numEntries
    BY DEF AddWrite, Goto, Threads, MainThreads, BaseInv, ControlInv, ControlType
  <2>3. items' \in Seq(Header) /\ Len(items') = numEntries + 1
    BY <2>1, <2>2 DEF DataType, Laid
  <2>4. QED
    BY <2>3 DEF BaseInv, DataInv, DataType, ControlInv, ControlType, Space, Spaces, Threads, MainThreads, Local
<1>2. /\ mem' = [mem EXCEPT ![c].snapshots = Append(reset, entry)]
      /\ items' = Append(counted, header)
      /\ pc' = [pc EXCEPT ![c] = "publish"] /\ pc[c] = "held" /\ call[c] = "Add"
      /\ UNCHANGED <<numEntries, call, cursor, torn>>
  BY <1>1, AddWritePlain DEF PlainAddWrite, Goto, Local, history
<1>3. /\ base \in Seq(Header) /\ Len(base) = numEntries
      /\ \A i \in 1..numEntries : base[i] = items[i]
  BY DEF BaseInv, DataInv, DataType, Laid
<1> HIDE DEF p, base
<1>4. /\ HeadersKept(base, counted, numEntries) /\ counted \in Seq(Header) /\ Len(counted) = numEntries
  BY <1>1, <1>3, CountOffspringKeeps, CountOffspringType
<1>5. EntriesKept(snap, reset) /\ reset \in Seq(Entry)
  BY <1>1, ResetParentKeeps, ResetParentType
<1>6. /\ entry.index = Len(snap) + 1 /\ entry.key = key[c] /\ entry.parent = p
      /\ header.key = key[c] /\ header.parent = p
  OBVIOUS
<1> HIDE DEF counted, reset, entry, header
<1>7. /\ mem'[c].snapshots = Append(reset, entry) /\ mem'[c].nextIndex = mem[c].nextIndex
      /\ \A r \in Spaces : r # c => mem'[r] = mem[r]
  BY <1>1, <1>2 DEF Local
<1>8. /\ HeadersKept(items, items', numEntries)
      /\ items'[numEntries + 1].key = key[c] /\ items'[numEntries + 1].parent = p
  <2>1. /\ \A i \in 1..numEntries : items'[i] = counted[i]
        /\ items'[numEntries + 1] = header
    BY <1>1, <1>2, <1>4
  <2>2. QED
    BY <1>3, <1>4, <1>6, <2>1 DEF HeadersKept
<1>9. \A u \in Threads : u # c => ~InSection(u) /\ pc'[u] = pc[u]
  BY <1>1, <1>2 DEF BaseInv, Locking, MutualExclusion, InSection
<1>10. mem[c].nextIndex = numEntries
  BY <1>2, AdderAtEnd DEF BaseInv, DataInv, Checked
<1>11. ASSUME Whole(c)' PROVE SpaceInv(c)'
  <2>1. SpaceInv(c)
    BY <1>1, <1>2, <1>11 DEF MirrorInv, Whole
  <2>2. ~Merging(c) /\ ~Ahead(c)
    BY <1>2, <1>9 DEF Merging, Ahead, InSection
  <2>3. Len(snap) = numEntries
    BY <1>10, <2>1, <2>2, ActorsAssumption DEF SpaceInv, Extent, Stopped
  <2>4. /\ Len(mem'[c].snapshots) = numEntries + 1
        /\ mem'[c].snapshots[numEntries + 1] = entry
        /\ \A i \in 1..numEntries : mem'[c].snapshots[i] = reset[i]
    <3>1. Len(reset) = numEntries
      BY <1>5, <2>3 DEF EntriesKept
    <3>2. QED
      BY <1>1, <1>5, <1>7, <3>1
  <2>5. Prefix(c)'
    <3>1. ASSUME NEW i \in 1..(numEntries + 1)
          PROVE  /\ mem'[c].snapshots[i].index = i
                 /\ mem'[c].snapshots[i].key = items'[i].key
                 /\ mem'[c].snapshots[i].parent = items'[i].parent
      <4>1. CASE i = numEntries + 1
        BY <1>6, <1>8, <2>3, <2>4, <4>1
      <4>2. CASE i # numEntries + 1
        <5>1. i \in 1..numEntries /\ i \in 1..Len(snap)
          BY <1>1, <2>3, <4>2
        <5>2. snap[i].index = i /\ snap[i].key = items[i].key /\ snap[i].parent = items[i].parent
          BY <2>1, <5>1 DEF SpaceInv, Prefix
        <5>3. QED
          BY <1>5, <1>8, <2>4, <5>1, <5>2 DEF EntriesKept, HeadersKept
      <4>3. QED
        BY <4>1, <4>2
    <3>2. QED
      BY <1>1, <2>4, <3>1 DEF Prefix
  <2>6. Ahead(c)' /\ \A u \in Threads : pc'[u] # "sync"
    BY <1>1, <1>2, <1>9 DEF Ahead, InSection
  <2>7. Extent(c)'
    BY <1>2, <2>4, <2>6 DEF Extent
  <2>8. QED
    BY <2>5, <2>7 DEF SpaceInv
<1>12. \A r \in Spaces : r # c /\ Whole(r)' => Whole(r) /\ SpaceKept(r)
  <2>1. numEntries <= Len(items') /\ InSection(c)
    BY <1>1, <1>2 DEF InSection
  <2>2. QED
    BY <1>1, <1>2, <1>7, <1>8, <1>9, <2>1, MirrorOthers
<1>13. QED
  BY <1>1, <1>11, <1>12, MirrorOne

LEMMA MirrorAddPublish ==
  ASSUME BaseInv, KeyInv, MirrorInv, NEW c \in Tracees, AddPublish(c)
  PROVE  MirrorInv'
<1>1. /\ c \in Threads /\ c \in Spaces /\ Space(c) = c /\ mem[c] \in Local /\ mem \in [Spaces -> Local]
      /\ pc \in [Threads -> Places] /\ items \in Seq(Header) /\ numEntries \in Nat
      /\ numEntries <= Len(items) /\ Tracees \subseteq Threads
  BY DEF BaseInv, DataInv, DataType, Laid, ControlInv, ControlType,
         Space, Spaces, Threads, MainThreads
<1>2. /\ numEntries' = numEntries + 1 /\ pc[c] = "publish" /\ InSection(c)
      /\ pc' = [pc EXCEPT ![c] = "unlock"] /\ UNCHANGED <<items, call, cursor, torn>>
  BY DEF AddPublish, Goto, history, InSection
<1>3. /\ mem'[c].snapshots = mem[c].snapshots /\ mem'[c].nextIndex = numEntries + 1
      /\ \A r \in Spaces : r # c => mem'[r] = mem[r]
  BY <1>1 DEF AddPublish, Local
<1>4. \A u \in Threads : u # c => ~InSection(u) /\ pc'[u] = pc[u]
  BY <1>1, <1>2 DEF BaseInv, Locking, MutualExclusion
<1>5. ASSUME Whole(c)' PROVE SpaceInv(c)'
  <2>1. SpaceInv(c) /\ Ahead(c)
    BY <1>1, <1>2, <1>5 DEF MirrorInv, Whole, Ahead
  <2>2. Len(mem[c].snapshots) = numEntries + 1
    BY <2>1 DEF SpaceInv, Extent
  <2>3. ~Ahead(c)' /\ \A u \in Threads : pc'[u] # "sync"
    BY <1>1, <1>2, <1>4 DEF Ahead, InSection
  <2>4. QED
    BY <1>2, <1>3, <2>1, <2>2, <2>3 DEF SpaceInv, Prefix, Extent
<1>6. \A r \in Spaces : r # c /\ Whole(r)' => Whole(r) /\ SpaceKept(r)
  BY <1>1, <1>2, <1>3, <1>4, MirrorOthers, SameHeaders
<1>7. QED
  BY <1>1, <1>5, <1>6, MirrorOne

LEMMA MirrorTracee ==
  ASSUME BaseInv, KeyInv, MirrorInv, NEW c \in Tracees, TraceeStep(c)
  PROVE  MirrorInv'
<1>0. /\ c \in Threads /\ c \in Spaces /\ mem[c] \in Local /\ mem \in [Spaces -> Local]
      /\ pc \in [Threads -> Places] /\ call \in [Threads -> Calls] /\ Tracees \subseteq Threads
      /\ items \in Seq(Header)
  BY DEF BaseInv, DataInv, DataType, ControlInv, ControlType, Spaces, Threads, MainThreads
<1>1. ASSUME UNCHANGED <<items, numEntries, mem, cursor, torn>>,
             pc[c] \notin {"sync", "publish", "segv"},
             \E w \in Places \ {"sync", "publish"} : pc' = [pc EXCEPT ![c] = w]
      PROVE  MirrorInv'
  <2>1. StepKept
    BY <1>0, <1>1, SameObject, SameHeaders DEF StepKept, ThreadKept, Whole
  <2>2. QED
    BY <2>1, MirrorStill
<1>2. CASE CreateInput(c) \/ GetItem(c) \/ SyncCounters(c)
  <2>1. \E w \in {"target", "pick", "wait", "enter"} : pc' = [pc EXCEPT ![c] = w]
    BY <1>2 DEF CreateInput, GetItem, SyncCounters, Enter, Goto
  <2>2. UNCHANGED <<items, numEntries, mem, cursor, torn>> /\ pc[c] = "loop"
    BY <1>2 DEF CreateInput, GetItem, SyncCounters, shared, history
  <2>3. QED
    BY <1>0, <1>1, <2>1, <2>2 DEF Places
<1>3. CASE NothingNew(c) \/ AddSeen(c) \/ CountersNull(c)
  <2>1. /\ UNCHANGED <<items, numEntries, mem, cursor, torn>> /\ pc[c] \in {"target", "held", "pointer"}
        /\ \E w \in {"loop", "unlock", "crashed"} : pc' = [pc EXCEPT ![c] = w]
    BY <1>3 DEF NothingNew, AddSeen, CountersNull, Goto, shared, history
  <2>2. QED
    BY <1>1, <2>1 DEF Places
<1>4. ASSUME NEW k \in Keys, FoundCoverage(c, k) PROVE MirrorInv'
  <2>1. /\ UNCHANGED <<items, numEntries, mem, cursor, torn>> /\ pc[c] = "target"
        /\ \E w \in {"loop", "wait"} : pc' = [pc EXCEPT ![c] = w]
    BY <1>0, <1>4 DEF FoundCoverage, Enter, Goto, shared, history
  <2>2. QED
    BY <1>1, <2>1 DEF Places
<1>5. CASE PickItem(c)
  <2>1. PICK i \in 1..Len(mem[c].snapshots) :
          mem' = [mem EXCEPT ![c].lastItem = i,
                             ![c].snapshots[i].new = (@ + 1) % (MaxCount + 1)]
    BY <1>5 DEF PickItem
  <2> DEFINE snap == mem[c].snapshots
             n == (snap[i].new + 1) % (MaxCount + 1)
             picked == [snap EXCEPT ![i] = [snap[i] EXCEPT !.new = n]]
  <2>2. snap \in Seq(Entry) /\ i \in 1..Len(snap) /\ snap[i] \in Entry
    BY <1>0, <2>1 DEF Local
  <2>3. mem' = [mem EXCEPT ![c] = [mem[c] EXCEPT !.lastItem = i, !.snapshots = picked]]
    BY <1>0, <2>1, <2>2 DEF Local, Entry
  <2>4. EntriesKept(snap, picked)
    <3>1. picked[i] = [snap[i] EXCEPT !.new = n] /\ \A j \in 1..Len(snap) : j # i => picked[j] = snap[j]
      BY <2>2
    <3>2. picked[i].index = snap[i].index /\ picked[i].key = snap[i].key /\ picked[i].parent = snap[i].parent
      BY <2>2, <3>1 DEF Entry
    <3>3. Len(picked) = Len(snap)
      BY <2>2
    <3> HIDE DEF picked, snap
    <3>4. QED
      BY <3>1, <3>2, <3>3 DEF EntriesKept
  <2> HIDE DEF picked
  <2>5. \A s \in Spaces : ObjectKept(mem[s], mem'[s])
    <3>1. ObjectKept(mem[c], mem'[c])
      BY <1>0, <2>3, <2>4 DEF ObjectKept, Local
    <3>2. \A s \in Spaces : s # c => mem'[s] = mem[s]
      BY <1>0, <2>3
    <3>3. QED
      BY <3>1, <3>2, SameObject
  <2>6. /\ UNCHANGED <<items, numEntries, cursor, torn>> /\ pc[c] = "pick"
        /\ pc' = [pc EXCEPT ![c] = "target"]
    BY <1>0, <1>5 DEF PickItem, Enter, Goto, shared, history
  <2>7. StepKept
    BY <1>0, <2>5, <2>6, SameHeaders DEF StepKept, ThreadKept, Whole
  <2>8. QED
    BY <2>7, MirrorStill
<1>6. CASE CountersHeld(c)
  <2> DEFINE snap == mem[c].snapshots
  <2>1. snap \in Seq(Entry)
    BY <1>0 DEF Local
  <2>2. /\ items' = FlushTo(items, snap)
        /\ mem' = [mem EXCEPT ![c] = [mem[c] EXCEPT !.snapshots = FlushFrom(items, snap)]]
        /\ UNCHANGED <<numEntries, cursor, torn>> /\ pc[c] = "held"
        /\ pc' = [pc EXCEPT ![c] = "unlock"]
    BY <1>0, <1>6 DEF CountersHeld, Goto, Local, history
  <2>3. HeadersKept(items, items', Len(items)) /\ Len(items') = Len(items)
    BY <1>0, <2>1, <2>2, FlushToKeeps, FlushToType
  <2>4. EntriesKept(snap, FlushFrom(items, snap))
    BY <1>0, <2>1, FlushFromKeeps
  <2>5. \A s \in Spaces : ObjectKept(mem[s], mem'[s])
    <3>1. ObjectKept(mem[c], mem'[c])
      BY <1>0, <2>2, <2>4 DEF ObjectKept, Local
    <3>2. \A s \in Spaces : s # c => mem'[s] = mem[s]
      BY <1>0, <2>2
    <3>3. QED
      BY <3>1, <3>2, SameObject
  <2>6. StepKept
    BY <1>0, <2>2, <2>3, <2>5 DEF StepKept, ThreadKept, Whole
  <2>7. QED
    BY <2>6, MirrorStill
<1>7. QED
  BY <1>0, <1>2, <1>3, <1>4, <1>5, <1>6, MirrorCall, MirrorAddWrite, MirrorAddPublish, TraceeStep(c)
     DEF TraceeStep

-----------------------------------------------------------------------------
(* The main process, and the faults.                                       *)

\* A tracee slot c starts with a copy of the main process's object, or is emptied.
LEMMA MirrorSlot ==
  ASSUME BaseInv, MirrorInv, NEW m \in Threads, m \notin Tracees, NEW c \in Tracees,
         UNCHANGED <<items, numEntries>>,
         \A s \in Spaces : s # c => mem'[s] = mem[s],
         \A t \in Threads : t # c => cursor'[t] = cursor[t],
         \E v \in Places \ {"sync", "publish"}, w \in Places \ {"sync", "publish"} :
           pc' = [pc EXCEPT ![c] = v, ![m] = w],
         pc[m] \notin {"sync", "publish", "segv"},
         \A d \in Tracees : d # c => torn'[d] = torn[d],
         Whole(c)' => \/ mem'[c] = mem[Main] /\ ~Merging(Main)
                      \/ mem'[c].snapshots = <<>> /\ mem'[c].nextIndex = 0
  PROVE  MirrorInv'
<1>1. /\ c \in Threads /\ c \in Spaces /\ Main \in Spaces /\ Main \notin Tracees
      /\ pc \in [Threads -> Places] /\ Tracees \subseteq Threads /\ Tracees \subseteq Spaces
      /\ items \in Seq(Header) /\ numEntries \in Nat /\ m \in MainThreads
  BY ActorsAssumption DEF Spaces, Threads, MainThreads, BaseInv, ControlInv, ControlType, DataInv, DataType
<1>2. \A t \in Threads : t # c => ThreadKept(t)
  BY <1>1 DEF ThreadKept
<1>3. /\ pc'[c] \notin {"sync", "publish"}
      /\ \A d \in Tracees : d # c => pc'[d] = pc[d]
  BY <1>1
<1>4. ASSUME Whole(c)' PROVE SpaceInv(c)'
  <2>1. ~Ahead(c)' /\ \A t \in Threads : Space(t) = c => pc'[t] # "sync"
    BY <1>1, <1>3 DEF Ahead, Space
  <2>2. \A t \in Threads : Space(t)' = Space(t)
    BY DEF Space
  <2>3. CASE mem'[c] = mem[Main] /\ ~Merging(Main)
    <3>1. SpaceInv(Main) /\ ~Ahead(Main)
      BY <1>1 DEF MirrorInv, Whole, Ahead
    <3>2. Len(mem[Main].snapshots) = mem[Main].nextIndex
      BY <1>1, <2>3, <3>1 DEF SpaceInv, Extent, Stopped
    <3>3. Prefix(c)'
      BY <2>3, <3>1 DEF SpaceInv, Prefix
    <3>4. Extent(c)'
      BY <2>1, <2>3, <2>2, <3>2 DEF Extent
    <3>5. QED
      BY <3>3, <3>4 DEF SpaceInv
  <2>4. CASE mem'[c].snapshots = <<>> /\ mem'[c].nextIndex = 0
    <3>1. Len(<<>>) = 0 /\ Len(items) \in Nat
      BY <1>1
    <3>2. Prefix(c)' /\ Extent(c)'
      BY <1>1, <2>1, <2>4, <2>2, <3>1 DEF Prefix, Extent
    <3>3. QED
      BY <3>2 DEF SpaceInv
  <2>5. QED
    BY <1>4, <2>3, <2>4
<1>5. ASSUME NEW s \in Spaces, s # c, Whole(s)' PROVE Whole(s) /\ SpaceKept(s)
  <2>1. Whole(s) /\ SpaceInv(s)
    BY <1>5 DEF MirrorInv, Whole
  <2>2. \A t \in Threads : Space(t) = s => ThreadKept(t)
    BY <1>2, <1>5 DEF Space
  <2>3. Ahead(s)' <=> Ahead(s)
    BY <1>3, <1>5 DEF Ahead
  <2>4. QED
    BY <1>1, <1>5, <2>1, <2>2, <2>3, SameObject, SameHeaders DEF SpaceKept, SpaceInv, Prefix
<1>6. QED
  BY <1>1, <1>4, <1>5, MirrorOne

\* The main process has read a null pointer: its threads stop, and its mirror
\* stays as far as they got.
LEMMA MirrorSegv ==
  ASSUME BaseInv, KeyInv, MirrorInv, Segv, UNCHANGED <<items, numEntries, mem, cursor, torn>>
  PROVE  MirrorInv'
<1>1. /\ pc \in [Threads -> Places] /\ Tracees \subseteq Threads /\ Main \in Spaces
      /\ Main \notin Tracees /\ MainThreads \cap Tracees = {} /\ Threads = MainThreads \cup Tracees
      /\ numEntries \in Nat
  BY ActorsAssumption DEF BaseInv, ControlInv, ControlType, DataInv, DataType, Threads, MainThreads, Spaces
<1>2. pc' = [t \in Threads |-> IF t \in MainThreads THEN "segv" ELSE pc[t]]
  BY DEF Segv
<1>3. SpaceInv(Main)'
  <2>1. SpaceInv(Main) /\ ~Ahead(Main) /\ ~Ahead(Main)'
    BY <1>1 DEF MirrorInv, Whole, Ahead
  <2>2. Len(mem[Main].snapshots) <= numEntries
    <3>1. mem[Main].nextIndex <= numEntries
      BY <1>1 DEF KeyInv, AllSeen
    <3>2. ASSUME NEW t \in Threads, Space(t) = Main, pc[t] = "sync"
          PROVE  Len(mem[Main].snapshots) <= numEntries
      BY <2>1, <3>2 DEF SpaceInv, Extent, KeyInv
    <3>3. QED
      BY <2>1, <3>1, <3>2 DEF SpaceInv, Extent, Merging
  <2>3. \A t \in Threads : Space(t) = Main => pc'[t] = "segv"
    BY <1>1, <1>2 DEF Space
  <2>4. Stopped(Main)'
    BY <1>1, <1>2 DEF Stopped
  <2>5. Prefix(Main)'
    BY <2>1 DEF SpaceInv, Prefix
  <2>6. Extent(Main)'
    BY <2>1, <2>2, <2>3, <2>4 DEF Extent, Space
  <2>7. QED
    BY <2>5, <2>6 DEF SpaceInv
<1>4. ASSUME NEW r \in Spaces, r # Main, Whole(r)' PROVE Whole(r) /\ SpaceKept(r)
  <2>1. Whole(r) /\ SpaceInv(r) /\ r \in Tracees
    BY <1>4 DEF MirrorInv, Whole, Spaces
  <2>2. \A t \in Threads : Space(t) = r => t \notin MainThreads
    BY <1>1, <1>4 DEF Space
  <2>3. \A t \in Threads : Space(t) = r => ThreadKept(t)
    BY <1>2, <2>2 DEF ThreadKept
  <2>4. Ahead(r)' <=> Ahead(r)
    BY <1>1, <1>2, <2>1 DEF Ahead
  <2>5. QED
    BY <1>1, <2>1, <2>3, <2>4, SameObject, SameHeaders DEF SpaceKept, SpaceInv, Prefix
<1>5. QED
  BY <1>1, <1>3, <1>4, MirrorOne

LEMMA MirrorMonitor ==
  ASSUME BaseInv, KeyInv, MirrorInv, NEW m \in Monitors, MonitorStep(m)
  PROVE  MirrorInv'
<1>0. /\ m \in Threads /\ m \notin Tracees /\ Tracees \subseteq Threads /\ Tracees \subseteq Spaces
      /\ Main \in Spaces /\ Main \notin Tracees /\ mem[Main] \in Local
      /\ pc \in [Threads -> Places] /\ mem \in [Spaces -> Local] /\ torn \in [Tracees -> BOOLEAN]
      /\ cursor \in [Threads -> Nat] /\ items \in Seq(Header)
  BY ActorsAssumption DEF Threads, MainThreads, Spaces, BaseInv, ControlInv, ControlType, DataInv, DataType
<1>1. ASSUME NEW c \in Tracees, Fork(m, c) PROVE MirrorInv'
  <2>1. /\ UNCHANGED <<items, numEntries, cursor>> /\ pc[m] = "spawn"
        /\ mem' = [mem EXCEPT ![c] = mem[Main]]
        /\ pc' = [pc EXCEPT ![m] = "watch", ![c] = "enter"]
        /\ torn' = [torn EXCEPT ![c] = \E t \in MainThreads : pc[t] \in {"attach", "sync", "pointer"}]
    BY <1>1 DEF Fork, shared
  <2>2. pc' = [pc EXCEPT ![c] = "enter", ![m] = "watch"]
    BY <1>0, <2>1
  <2>3. Whole(c)' => ~Merging(Main)
    <3>1. \A t \in Threads : Space(t) = Main => t \in MainThreads
      BY <1>0 DEF Space, Threads
    <3>2. torn'[c] = \E t \in MainThreads : pc[t] \in {"attach", "sync", "pointer"}
      BY <1>0, <2>1
    <3>3. QED
      BY <3>1, <3>2 DEF Whole, Merging
  <2>4. mem'[c] = mem[Main] /\ \A s \in Spaces : s # c => mem'[s] = mem[s]
    BY <1>0, <2>1
  <2>5. \A d \in Tracees : d # c => torn'[d] = torn[d]
    BY <1>0, <2>1
  <2>6. \E v \in Places \ {"sync", "publish"}, w \in Places \ {"sync", "publish"} :
           pc' = [pc EXCEPT ![c] = v, ![m] = w]
    BY <2>2 DEF Places
  <2>7. pc[m] \notin {"sync", "publish", "segv"} /\ \A t \in Threads : t # c => cursor'[t] = cursor[t]
    BY <2>1
  <2>8. UNCHANGED <<items, numEntries>>
    BY <2>1
  <2>9. QED
    BY <1>0, <2>3, <2>4, <2>5, <2>6, <2>7, <2>8, MirrorSlot
<1>2. ASSUME NEW c \in Tracees, HandleException(m, c) PROVE MirrorInv'
  <2>1. /\ UNCHANGED <<items, numEntries>> /\ pc[m] = "watch"
        /\ mem' = [mem EXCEPT ![c] = Blank] /\ cursor' = [cursor EXCEPT ![c] = 0]
        /\ torn' = [torn EXCEPT ![c] = FALSE]
        /\ \E w \in {"enter", "wait"} : pc' = [pc EXCEPT ![c] = "dead", ![m] = w]
    BY <1>2 DEF HandleException, Reap, shared
  <2>2. mem'[c].snapshots = <<>> /\ mem'[c].nextIndex = 0
    BY <1>0, <2>1 DEF Blank
  <2>3. /\ \A s \in Spaces : s # c => mem'[s] = mem[s]
        /\ \A t \in Threads : t # c => cursor'[t] = cursor[t]
        /\ \A d \in Tracees : d # c => torn'[d] = torn[d]
    BY <1>0, <2>1
  <2>4. \E v \in Places \ {"sync", "publish"}, w \in Places \ {"sync", "publish"} :
           pc' = [pc EXCEPT ![c] = v, ![m] = w]
    BY <2>1 DEF Places
  <2>5. pc[m] \notin {"sync", "publish", "segv"}
    BY <2>1
  <2>6. UNCHANGED <<items, numEntries>>
    BY <2>1
  <2>7. QED
    BY <1>0, <2>2, <2>3, <2>4, <2>5, <2>6, MirrorSlot
<1>3. CASE UnwantedHeld(m)
  <2> DEFINE bumped == [i \in 1..Len(items) |->
                         IF i = unwanted[m]
                         THEN [items[i] EXCEPT !.mut = (@ + 1) % (MaxCount + 1)]
                         ELSE items[i]]
  <2>1. /\ items' = bumped /\ UNCHANGED <<numEntries, cursor, torn>>
        /\ mem' = [mem EXCEPT ![Main] = [mem[Main] EXCEPT !.lastSeq = updatedSeq + 1]]
        /\ pc' = [pc EXCEPT ![m] = "unlock"] /\ pc[m] = "held"
    BY <1>0, <1>3 DEF UnwantedHeld, Goto, history
  <2>2. HeadersKept(items, bumped, Len(items))
    <3>1. ASSUME NEW i \in 1..Len(items)
          PROVE  bumped[i].key = items[i].key /\ bumped[i].parent = items[i].parent
      <4>1. items[i] \in Header
        BY <1>0
      <4>2. QED
        BY <4>1 DEF Header
    <3> HIDE DEF bumped
    <3>2. QED
      BY <3>1 DEF HeadersKept
  <2>3. Len(items') = Len(items)
    <3>1. items' \in Seq(Header)
      BY DataMonitor DEF BaseInv, DataInv, DataType, Kept
    <3>2. DOMAIN bumped = 1..Len(items) /\ Len(items) \in Nat
      BY <1>0
    <3> HIDE DEF bumped
    <3>3. QED
      BY <2>1, <3>1, <3>2, LenProperties
  <2> HIDE DEF bumped
  <2>4. \A s \in Spaces : ObjectKept(mem[s], mem'[s])
    <3>1. ObjectKept(mem[Main], mem'[Main])
      BY <1>0, <2>1 DEF ObjectKept, EntriesKept, Local
    <3>2. \A s \in Spaces : s # Main => mem'[s] = mem[s]
      BY <1>0, <2>1
    <3>3. QED
      BY <3>1, <3>2, SameObject
  <2>5. StepKept
    BY <1>0, <2>1, <2>2, <2>3, <2>4 DEF StepKept, ThreadKept, Whole
  <2>6. QED
    BY <2>5, MirrorStill
<1>4. CASE UnwantedNull(m)
  BY <1>4, MirrorSegv DEF UnwantedNull, shared, history
<1>5. QED
  BY <1>0, <1>1, <1>2, <1>3, <1>4, MirrorCall, MonitorStep(m) DEF MonitorStep

LEMMA MirrorStatus ==
  ASSUME BaseInv, KeyInv, MirrorInv, NEW s \in Printers, StatusStep(s)
  PROVE  MirrorInv'
<1>0. /\ s \in Threads /\ s \notin Tracees /\ Tracees \subseteq Threads
      /\ pc \in [Threads -> Places]
  BY ActorsAssumption DEF Threads, MainThreads, BaseInv, ControlInv, ControlType
<1>1. ASSUME UNCHANGED <<items, numEntries, mem, cursor, torn>>,
             pc[s] \in {"idle", "print"}, \E w \in {"enter", "idle"} : pc' = [pc EXCEPT ![s] = w]
      PROVE  MirrorInv'
  <2>1. StepKept
    BY <1>0, <1>1, SameObject, SameHeaders DEF StepKept, ThreadKept, Whole
  <2>2. QED
    BY <2>1, MirrorStill
<1>2. CASE PrintStatus(s)
  <2>1. /\ UNCHANGED <<items, numEntries, mem, cursor, torn>> /\ pc[s] = "idle"
        /\ pc' = [pc EXCEPT ![s] = "enter"]
    BY <1>2 DEF PrintStatus, Enter, Goto, shared, history
  <2>2. QED
    BY <1>1, <2>1
<1>3. CASE PrintDecay(s)
  <2>1. UNCHANGED <<items, numEntries, mem, cursor, torn>> /\ pc[s] = "print"
    BY <1>3 DEF PrintDecay, shared, history
  <2>2. CASE Segv
    BY <2>1, <2>2, MirrorSegv
  <2>3. CASE pc' = [pc EXCEPT ![s] = "idle"]
    BY <1>1, <2>1, <2>3
  <2>4. QED
    BY <1>3, <2>2, <2>3 DEF PrintDecay, Goto
<1>4. QED
  BY <1>0, <1>2, <1>3, MirrorCall, StatusStep(s) DEF StatusStep

LEMMA MirrorFault ==
  ASSUME BaseInv, KeyInv, MirrorInv, Fault
  PROVE  MirrorInv'
<1>0. /\ Tracees \subseteq Threads /\ Tracees \subseteq Spaces /\ Monitors \subseteq Threads
      /\ Monitors \cap Tracees = {}
      /\ pc \in [Threads -> Places] /\ mem \in [Spaces -> Local]
      /\ cursor \in [Threads -> Nat] /\ torn \in [Tracees -> BOOLEAN]
      /\ items \in Seq(Header) /\ numEntries \in Nat /\ numEntries <= Len(items)
  BY ActorsAssumption DEF Threads, MainThreads, Spaces, BaseInv, ControlInv, ControlType,
     DataInv, DataType, Laid
<1>1. ASSUME NEW c \in Tracees, Crash(c) PROVE MirrorInv'
  <2>1. /\ UNCHANGED <<items, numEntries, mem, cursor, torn>> /\ pc[c] = "target"
        /\ pc' = [pc EXCEPT ![c] = "crashed"]
    BY <1>1 DEF Crash, Goto, shared
  <2>2. StepKept
    BY <1>0, <2>1, SameObject, SameHeaders DEF StepKept, ThreadKept, Whole
  <2>3. QED
    BY <2>2, MirrorStill
<1>2. ASSUME NEW m \in Monitors, NEW c \in Tracees, Kill(m, c) PROVE MirrorInv'
  <2>1. /\ UNCHANGED <<items, numEntries>> /\ pc[m] = "watch"
        /\ mem' = [mem EXCEPT ![c] = Blank] /\ cursor' = [cursor EXCEPT ![c] = 0]
        /\ torn' = [torn EXCEPT ![c] = FALSE]
        /\ pc' = [pc EXCEPT ![c] = "dead", ![m] = "spawn"]
    BY <1>2 DEF Kill, Reap, shared
  <2>2. mem'[c].snapshots = <<>> /\ mem'[c].nextIndex = 0
    BY <1>0, <2>1 DEF Blank
  <2>3. /\ \A s \in Spaces : s # c => mem'[s] = mem[s]
        /\ \A t \in Threads : t # c => cursor'[t] = cursor[t]
        /\ \A d \in Tracees : d # c => torn'[d] = torn[d]
    BY <1>0, <2>1
  <2>4. \E v \in Places \ {"sync", "publish"}, w \in Places \ {"sync", "publish"} :
           pc' = [pc EXCEPT ![c] = v, ![m] = w]
    BY <2>1 DEF Places
  <2>5. m \in Threads /\ m \notin Tracees /\ pc[m] \notin {"sync", "publish", "segv"}
    BY <1>0, <2>1
  <2>6. UNCHANGED <<items, numEntries>>
    BY <2>1
  <2>7. QED
    BY <2>2, <2>3, <2>4, <2>5, <2>6, MirrorSlot
<1>3. CASE Restart
  <2>1. mem' = FreshMem /\ pc' = FreshPc /\ UNCHANGED <<items, numEntries>>
    BY <1>3 DEF Restart, shared
  <2>2. \A t \in Threads : pc'[t] \notin {"sync", "publish"}
    BY <2>1 DEF FreshPc
  <2>3. ASSUME NEW s \in Spaces PROVE SpaceInv(s)'
    <3> DEFINE snap == mem'[s].snapshots
    <3>1. \/ snap = <<>> /\ mem'[s].nextIndex = 0
          \/ snap = [i \in 1..numEntries |-> Mirror(items[i], i)] /\ mem'[s].nextIndex = numEntries
      <4>1. mem'[s] = Blank \/ mem'[s] = InitObject
        BY <2>1 DEF FreshMem
      <4>2. Blank.snapshots = <<>> /\ Blank.nextIndex = 0
        BY DEF Blank
      <4>3. CASE UninitSeq = updatedSeq
        BY <4>1, <4>2, <4>3 DEF InitObject
      <4>4. CASE UninitSeq # updatedSeq
        <5>1. /\ InitObject.snapshots = [i \in 1..numEntries |-> Mirror(items[i], i)]
              /\ InitObject.nextIndex = numEntries
          <6> DEFINE mirror == [i \in 1..numEntries |-> Mirror(items[i], i)]
                     seen == {items[i].key : i \in 1..numEntries}
          <6>1. InitObject = [Blank EXCEPT !.first = TRUE, !.attached = TRUE, !.snapshots = mirror,
                                !.seenKeys = seen, !.nextIndex = numEntries,
                                !.nextItem = numEntries, !.lastSeq = updatedSeq]
            BY <1>0, <4>4, InitObjectPlain
          <6> HIDE DEF mirror, seen
          <6>2. InitObject.snapshots = mirror /\ InitObject.nextIndex = numEntries
            BY <6>1 DEF Blank
          <6>3. QED
            BY <6>2 DEF mirror
        <5>2. QED
          BY <4>1, <4>2, <5>1
      <4>5. QED
        BY <4>3, <4>4
    <3>2. /\ Len(snap) = mem'[s].nextIndex /\ Len(snap) <= Len(items)
          /\ \A i \in 1..Len(snap) : /\ snap[i].index = i
                                     /\ snap[i].key = items[i].key
                                     /\ snap[i].parent = items[i].parent
      <4>1. CASE snap = <<>> /\ mem'[s].nextIndex = 0
        <5>1. Len(<<>>) = 0 /\ Len(items) \in Nat
          BY <1>0
        <5>2. QED
          BY <4>1, <5>1
      <4>2. CASE /\ snap = [i \in 1..numEntries |-> Mirror(items[i], i)]
                 /\ mem'[s].nextIndex = numEntries
        <5>1. snap \in [1..numEntries -> {Mirror(items[i], i) : i \in 1..numEntries}]
          BY <4>2
        <5>2. Len(snap) = numEntries
          BY <1>0, <5>1, FunctionIsSeq
        <5>3. QED
          BY <1>0, <4>2, <5>2 DEF Mirror
      <4>3. QED
        BY <3>1, <4>1, <4>2
    <3>3. ~Ahead(s)'
      BY <1>0, <2>2 DEF Ahead
    <3>4. Prefix(s)'
      BY <2>1, <3>2 DEF Prefix
    <3>5. Extent(s)'
      BY <2>2, <3>2, <3>3 DEF Extent
    <3>6. QED
      BY <3>4, <3>5 DEF SpaceInv
  <2>4. QED
    BY <2>3 DEF MirrorInv
<1>4. QED
  BY <1>1, <1>2, <1>3, Fault DEF Fault

LEMMA MirrorStep == BaseInv /\ KeyInv /\ MirrorInv /\ [Next]_vars => MirrorInv'
<1> SUFFICES ASSUME BaseInv, KeyInv, MirrorInv, [Next]_vars PROVE MirrorInv'
  OBVIOUS
<1>1. CASE UNCHANGED vars
  <2>1. UNCHANGED <<items, numEntries, mem, pc, cursor, torn>>
    BY <1>1 DEF vars, shared, control, history
  <2>2. StepKept
    BY <2>1, SameObject, SameHeaders DEF StepKept, ThreadKept, Whole
  <2>3. QED
    BY <2>2, MirrorStill
<1>2. QED
  BY <1>1, MirrorTracee, MirrorMonitor, MirrorStatus, MirrorFault DEF Next

MirrorsSound == KeysSound /\ (split \/ MirrorInv)

LEMMA MirrorsSoundInit == Init => MirrorsSound
BY KeysSoundInit, MirrorInit DEF MirrorsSound

LEMMA MirrorsSoundStep == MirrorsSound /\ [Next]_vars => MirrorsSound'
BY KeysSoundStep, SplitStays, MirrorStep DEF MirrorsSound, KeysSound, Sound

LEMMA MirrorFacts == MirrorsSound => LocalMirror
BY DEF MirrorsSound, MirrorInv, SpaceInv, Prefix, LocalMirror

-----------------------------------------------------------------------------

\* Every private mirror is position by position a prefix of the items in the map, for
\* any number of processes, threads and keys, and however often tracees are forked,
\* crash, are killed or the campaign starts again, unless fork copied it in the middle
\* of SyncInner, or any object between the two stores that end it.
THEOREM MirrorsArePrefixes == Spec => []LocalMirror
BY MirrorsSoundInit, MirrorsSoundStep, MirrorFacts, PTL DEF Spec

-----------------------------------------------------------------------------
(* What a sequence number tells, until IncUnwanted moves it: updated_seq      *)
(* counts the published items, and an object that is not in a merge has       *)
(* mirrored as many as its own number says.  None of this depends on what     *)
(* the headers contain, or on next_item.                                     *)

\* No tracee has crashed, and no campaign started with an arbitrary number in
\* last_updated_seq on a map that already has items.
Trusted == nCrashes = 0 /\ (UninitSeq = 0 \/ nRestarts = 0)

Live(s) == s \in Tracees => pc[s] # "dead"

\* A thread of address space s is in SyncInner, up to its last round.
Syncing(s) == \E t \in Threads : Space(t) = s /\ pc[t] \in {"attach", "sync"}

SeqFacts ==
  /\ updatedSeq = numEntries
  /\ \A c \in Tracees : pc[c] # "crashed"
  /\ \A t \in Threads :
       /\ call[t] # "IncUnwanted"
       /\ pc[t] = "sync" => mem[Space(t)].lastSeq = updatedSeq /\ cursor[t] <= numEntries
  /\ \A s \in Spaces :
       /\ mem[s].nextIndex <= numEntries
       /\ Live(s) /\ Whole(s) /\ ~Syncing(s) /\ ~Stopped(s) => mem[s].lastSeq = mem[s].nextIndex

LEMMA SeqInit == Init => SeqFacts
<1> SUFFICES ASSUME Init PROVE SeqFacts
  OBVIOUS
<1>1. \A t \in Threads : pc[t] \in {"spawn", "idle", "dead"} /\ call[t] = None
  BY DEF Init, FreshPc
<1>2. \A c \in Tracees : c \in Threads /\ pc[c] = "dead"
  BY ActorsAssumption DEF Init, FreshPc, Threads, MainThreads
<1>3. mem[Main].lastSeq = mem[Main].nextIndex /\ \A s \in Spaces : mem[s].nextIndex = 0
  <2>1. mem[Main] = InitObject /\ updatedSeq = 0 /\ numEntries = 0
    BY DEF Init, FreshMem, Spaces
  <2>2. InitObject.nextIndex = 0 /\ InitObject.lastSeq = 0 /\ Blank.nextIndex = 0
    BY <2>1 DEF InitObject, Blank
  <2>3. QED
    BY <2>1, <2>2 DEF Init, FreshMem
<1>4. QED
  BY <1>1, <1>2, <1>3 DEF Init, SeqFacts, Live, Spaces, None

\* A step that neither publishes nor begins or ends a merge.
SeqKept ==
  /\ UNCHANGED <<numEntries, updatedSeq>>
  /\ \A s \in Spaces : /\ mem'[s].lastSeq = mem[s].lastSeq
                       /\ mem'[s].nextIndex = mem[s].nextIndex
                       /\ Live(s)' => Live(s)
                       /\ Whole(s)' => Whole(s)
  /\ \A t \in Threads : /\ pc'[t] = "sync" => pc[t] = "sync" /\ cursor'[t] <= numEntries
                        /\ pc[t] \in {"attach", "sync"} => pc'[t] \in {"attach", "sync"}
                        /\ pc[t] = "segv" => pc'[t] = "segv"
                        /\ pc'[t] = "crashed" => pc[t] = "crashed"
                        /\ call'[t] = "IncUnwanted" => call[t] = "IncUnwanted"

LEMMA SeqStill ==
  ASSUME SeqFacts, SeqKept
  PROVE  SeqFacts'
<1>1. \A t \in Threads : Space(t) \in Spaces /\ Space(t)' = Space(t)
  BY DEF Space, Spaces, Threads, MainThreads
<1>2. \A s \in Spaces : /\ Syncing(s) => Syncing(s)'
                        /\ Stopped(s) => Stopped(s)'
  BY <1>1 DEF Syncing, Stopped, SeqKept, Threads
<1>3. \A c \in Tracees : c \in Threads
  BY DEF Threads, MainThreads
<1>4. \A t \in Threads : pc'[t] = "sync" =>
          mem'[Space(t)'].lastSeq = updatedSeq' /\ cursor'[t] <= numEntries'
  BY <1>1 DEF SeqFacts, SeqKept
<1>5. \A s \in Spaces : Live(s)' /\ Whole(s)' /\ ~Syncing(s)' /\ ~Stopped(s)'
                          => mem'[s].lastSeq = mem'[s].nextIndex
  BY <1>2 DEF SeqFacts, SeqKept
<1>6. QED
  BY <1>3, <1>4, <1>5 DEF SeqFacts, SeqKept

\* SyncInner begins its loop at the object's index.
LEMMA SeqMerge ==
  ASSUME TypeInv, SeqFacts, NEW t \in Threads, NEW o \in Local, BeginMerge(t, o),
         o.nextIndex = Object(t).nextIndex, pc[t] \in {"wait", "attach"},
         \A u \in Threads : InSection(u) => u = t,
         UNCHANGED <<numEntries, updatedSeq, call, torn>>
  PROVE  SeqFacts'
<1> DEFINE s == Space(t)
<1>1. /\ pc \in [Threads -> Places] /\ cursor \in [Threads -> Nat]
      /\ mem \in [Spaces -> Local] /\ s \in Spaces
      /\ \A u \in Threads : Space(u) \in Spaces /\ Space(u)' = Space(u)
      /\ Tracees \subseteq Threads
  BY DEF TypeInv, ControlInv, ControlType, DataType, Space, Spaces, Threads, MainThreads
<1>2. /\ pc' = [pc EXCEPT ![t] = "sync"] /\ cursor' = [cursor EXCEPT ![t] = o.nextIndex]
      /\ mem' = [mem EXCEPT ![s] = [o EXCEPT !.lastSeq = updatedSeq]]
  BY DEF BeginMerge, Goto
<1>3. /\ mem'[s].lastSeq = updatedSeq /\ mem'[s].nextIndex = mem[s].nextIndex
      /\ \A r \in Spaces : r # s => mem'[r] = mem[r]
  BY <1>1, <1>2 DEF Local, Object
<1>4. \A u \in Threads : /\ pc'[u] = "sync" <=> u = t
                         /\ u # t => pc[u] \notin {"attach", "sync"}
  BY <1>1, <1>2 DEF InSection
<1>5. Syncing(s)'
  BY <1>1, <1>4 DEF Syncing
<1>6. ASSUME NEW r \in Spaces, r # s, Live(r)', Whole(r)', ~Stopped(r)'
      PROVE  mem'[r].lastSeq = mem'[r].nextIndex
  <2>1. Live(r) /\ Whole(r)
    BY <1>1, <1>2, <1>6 DEF Live, Whole
  <2>2. ~Syncing(r)
    BY <1>4, <1>6 DEF Syncing
  <2>3. ~Stopped(r)
    BY <1>2, <1>6, <1>1 DEF Stopped, Threads
  <2>4. QED
    BY <1>3, <1>6, <2>1, <2>2, <2>3 DEF SeqFacts
<1>7. \A c \in Tracees : pc'[c] # "crashed"
  BY <1>1, <1>2 DEF SeqFacts
<1>8. \A u \in Threads : pc'[u] = "sync" =>
          mem'[Space(u)'].lastSeq = updatedSeq' /\ cursor'[u] <= numEntries'
  BY <1>1, <1>2, <1>3, <1>4 DEF SeqFacts, Object
<1>9. \A r \in Spaces : mem'[r].nextIndex <= numEntries'
  BY <1>3 DEF SeqFacts
<1>10. QED
  BY <1>5, <1>6, <1>7, <1>8, <1>9 DEF SeqFacts

LEMMA SeqCall ==
  ASSUME TypeInv, SeqFacts, NEW t \in Threads, CallStep(t)
  PROVE  SeqFacts'
<1> DEFINE s == Space(t)
<1>1. /\ pc \in [Threads -> Places] /\ call \in [Threads -> Calls] /\ cursor \in [Threads -> Nat]
      /\ mem \in [Spaces -> Local] /\ s \in Spaces /\ mem[s] \in Local /\ numEntries \in Nat
      /\ \A u \in Threads : Space(u) \in Spaces /\ Space(u)' = Space(u)
      /\ Tracees \subseteq Threads
  BY DEF TypeInv, ControlInv, ControlType, DataType, Space, Spaces, Threads, MainThreads
<1>0. InSection(t) => \A u \in Threads : InSection(u) => u = t
  BY DEF TypeInv, Locking, MutualExclusion
<1>2. CASE SyncCheck(t) \/ Release(t)
  <2>1. /\ UNCHANGED <<numEntries, updatedSeq, mem, cursor, torn>> /\ pc[t] \in {"enter", "unlock"}
        /\ \E w \in Places \ {"sync", "crashed", "dead"} : pc' = [pc EXCEPT ![t] = w]
        /\ \E l \in Calls \ {"IncUnwanted"} : call' = [call EXCEPT ![t] = l]
    <3>1. CASE SyncCheck(t)
      BY <3>1 DEF SyncCheck, Enter, Goto, Return, Places, Calls, None, shared, history
    <3>2. CASE Release(t)
      <4>1. Return(t) \in {"pick", "enter", "spawn", "print", "loop"}
        BY DEF Return
      <4>2. pc' = [pc EXCEPT ![t] = Return(t)] /\ pc[t] = "unlock"
            /\ UNCHANGED <<numEntries, updatedSeq, mem, cursor, torn>>
        BY <3>2 DEF Release, Goto, shared, history
      <4>3. call' = [call EXCEPT ![t] = "Sync"] \/ call' = [call EXCEPT ![t] = None]
        BY <3>2 DEF Release
      <4>4. \E l \in Calls \ {"IncUnwanted"} : call' = [call EXCEPT ![t] = l]
        BY <4>3 DEF Calls, None
      <4>5. QED
        BY <4>1, <4>2, <4>4 DEF Places
    <3>3. QED
      BY <1>2, <3>1, <3>2
  <2>2. SeqKept
    BY <1>1, <2>1 DEF SeqKept, SeqFacts, Live, Whole
  <2>3. QED
    BY <2>2, SeqStill
<1>3. CASE Acquire(t)
  <2>1. /\ call[t] # "IncUnwanted" /\ pc[t] = "wait"
        /\ UNCHANGED <<numEntries, updatedSeq, call, torn>>
        /\ \A u \in Threads : ~InSection(u)
    BY <1>3 DEF SeqFacts, Acquire, shared, history, TypeInv, Locking, MutualExclusion
  <2>2. CASE call[t] = "SyncCounters"
    <3>1. UNCHANGED <<mem, cursor>> /\ pc' = [pc EXCEPT ![t] = "held"]
      BY <1>3, <2>2 DEF Acquire, Goto
    <3>2. SeqKept
      BY <1>1, <2>1, <3>1 DEF SeqKept, SeqFacts, Live, Whole
    <3>3. QED
      BY <3>2, SeqStill
  <2>3. CASE call[t] # "SyncCounters" /\ mem[s].attached
    <3>1. BeginMerge(t, Object(t)) /\ Object(t) \in Local
      BY <1>1, <1>3, <2>1, <2>3 DEF Acquire, Object
    <3>2. QED
      BY <2>1, <3>1, SeqMerge
  <2>4. CASE call[t] # "SyncCounters" /\ ~mem[s].attached
    <3>1. /\ UNCHANGED cursor /\ pc' = [pc EXCEPT ![t] = "attach"]
          /\ mem' = [mem EXCEPT ![s] = [mem[s] EXCEPT !.attached = TRUE, !.snapshots = <<>>,
                                                      !.nextIndex = 0, !.nextItem = 0]]
      BY <1>1, <1>3, <2>1, <2>4 DEF Acquire, Goto, Object, Local
    <3>2. /\ mem'[s].nextIndex = 0 /\ \A r \in Spaces : r # s => mem'[r] = mem[r]
      BY <1>1, <3>1 DEF Local
    <3>3. pc'[t] = "attach" /\ \A u \in Threads : u # t => pc'[u] = pc[u]
      BY <1>1, <3>1
    <3>4. \A u \in Threads : pc'[u] # "sync" /\ pc[u] \notin {"attach", "sync"}
      BY <1>1, <2>1, <3>1 DEF InSection
    <3>5. Syncing(s)'
      BY <1>1, <3>3 DEF Syncing
    <3>6. ASSUME NEW r \in Spaces, r # s, Live(r)', Whole(r)', ~Stopped(r)'
          PROVE  mem'[r].lastSeq = mem'[r].nextIndex
      <4>1. Live(r) /\ Whole(r)
        BY <1>1, <2>1, <3>1, <3>6 DEF Live, Whole
      <4>2. ~Syncing(r)
        BY <3>4 DEF Syncing
      <4>3. ~Stopped(r)
        BY <1>1, <2>1, <3>3, <3>6 DEF Stopped, Threads
      <4>4. QED
        BY <3>2, <3>6, <4>1, <4>2, <4>3 DEF SeqFacts
    <3>7. \A c \in Tracees : pc'[c] # "crashed"
      BY <1>1, <3>1 DEF SeqFacts
    <3>8. \A r \in Spaces : mem'[r].nextIndex <= numEntries'
      BY <1>1, <2>1, <3>2 DEF SeqFacts
    <3>9. QED
      BY <2>1, <3>4, <3>5, <3>6, <3>7, <3>8 DEF SeqFacts
  <2>5. QED
    BY <2>2, <2>3, <2>4
<1>7. CASE Attach(t)
  <2> DEFINE o == [Object(t) EXCEPT !.first = TRUE]
  <2>1. o \in Local /\ o.nextIndex = Object(t).nextIndex
    BY <1>1 DEF Local, Object
  <2>2. /\ BeginMerge(t, o) /\ pc[t] = "attach" /\ UNCHANGED <<numEntries, updatedSeq, call, torn>>
        /\ \A u \in Threads : InSection(u) => u = t
    BY <1>0, <1>7 DEF Attach, InSection, shared, history
  <2> HIDE DEF o
  <2>3. QED
    BY <2>1, <2>2, SeqMerge
<1>4. CASE SyncItem(t)
  <2>1. UNCHANGED <<numEntries, updatedSeq, pc, call, torn>>
    BY <1>4 DEF SyncItem, shared, history
  <2>6. \A u \in Threads : pc[u] = "sync" => cursor'[u] <= numEntries
    BY <1>1, <1>4 DEF SyncItem, SeqFacts
  <2>2. \E snap, seen : mem' = [mem EXCEPT ![s] = [mem[s] EXCEPT !.snapshots = snap, !.seenKeys = seen]]
    BY <1>1, <1>4 DEF SyncItem, Local
  <2>3. \A r \in Spaces : mem'[r].lastSeq = mem[r].lastSeq /\ mem'[r].nextIndex = mem[r].nextIndex
    BY <1>1, <2>2 DEF Local
  <2>4. SeqKept
    BY <2>1, <2>3, <2>6 DEF SeqKept, Live, Whole
  <2>5. QED
    BY <2>4, SeqStill
<1>5. CASE SyncIndex(t)
  <2>1. /\ UNCHANGED <<numEntries, updatedSeq, call, torn>> /\ pc[t] = "sync" /\ cursor[t] = numEntries
        /\ pc' = [pc EXCEPT ![t] = "pointer"]
        /\ mem' = [mem EXCEPT ![s] = [mem[s] EXCEPT !.nextIndex = cursor[t]]]
    <3>1. cursor[t] <= numEntries /\ cursor[t] >= numEntries
      BY <1>5 DEF SyncIndex, SeqFacts
    <3>2. QED
      BY <1>1, <1>5, <3>1 DEF SyncIndex, Goto, shared, history, Local
  <2>2. /\ mem'[s].lastSeq = mem[s].lastSeq /\ mem'[s].nextIndex = numEntries
        /\ \A r \in Spaces : r # s => mem'[r] = mem[r]
    BY <1>1, <2>1 DEF Local
  <2>3. \A u \in Threads : u # t => pc[u] \notin {"attach", "sync"}
    BY <1>0, <2>1 DEF InSection
  <2>4. \A u \in Threads : pc'[u] # "sync"
    BY <1>1, <2>1, <2>3
  <2>5. mem'[s].lastSeq = mem'[s].nextIndex
    BY <2>1, <2>2 DEF SeqFacts
  <2>6. ASSUME NEW r \in Spaces, r # s, Live(r)', Whole(r)', ~Stopped(r)'
        PROVE  mem'[r].lastSeq = mem'[r].nextIndex
    <3>1. Live(r) /\ Whole(r)
      BY <1>1, <2>1, <2>6 DEF Live, Whole
    <3>2. ~Syncing(r)
      BY <2>3, <2>6 DEF Syncing
    <3>3. ~Stopped(r)
      BY <1>1, <2>1, <2>6 DEF Stopped, Threads
    <3>4. QED
      BY <2>2, <2>6, <3>1, <3>2, <3>3 DEF SeqFacts
  <2>7. \A c \in Tracees : pc'[c] # "crashed"
    BY <1>1, <2>1 DEF SeqFacts
  <2>8. \A r \in Spaces : mem'[r].nextIndex <= numEntries'
    BY <1>1, <2>1, <2>2 DEF SeqFacts
  <2>9. QED
    BY <2>1, <2>4, <2>5, <2>6, <2>7, <2>8 DEF SeqFacts
<1>8. CASE SyncEnd(t)
  <2>1. /\ UNCHANGED <<numEntries, updatedSeq, call, torn>> /\ pc[t] = "pointer"
        /\ \E w \in {"held", "unlock"} : pc' = [pc EXCEPT ![t] = w]
        /\ cursor' = [cursor EXCEPT ![t] = 0]
    BY <1>8 DEF SyncEnd, Goto, history
  <2>2. \A r \in Spaces : mem'[r].lastSeq = mem[r].lastSeq /\ mem'[r].nextIndex = mem[r].nextIndex
    <3> DEFINE snap == FlushFrom(items, mem[s].snapshots)
    <3>1. mem' = [mem EXCEPT ![s] = [mem[s] EXCEPT !.nextItem = curr[t], !.snapshots = snap]]
      BY <1>1, <1>8 DEF SyncEnd, Local
    <3> HIDE DEF snap
    <3>2. QED
      BY <1>1, <3>1 DEF Local
  <2>3. SeqKept
    BY <1>1, <2>1, <2>2 DEF SeqKept, SeqFacts, Live, Whole
  <2>4. QED
    BY <2>3, SeqStill
<1>6. QED
  BY <1>2, <1>3, <1>4, <1>5, <1>7, <1>8, CallStep(t) DEF CallStep

LEMMA SeqTracee ==
  ASSUME TypeInv, SeqFacts, NEW c \in Tracees, TraceeStep(c), Trusted'
  PROVE  SeqFacts'
<1>0. /\ c \in Threads /\ c \in Spaces /\ Space(c) = c /\ mem[c] \in Local /\ mem \in [Spaces -> Local]
      /\ pc \in [Threads -> Places] /\ call \in [Threads -> Calls] /\ Tracees \subseteq Threads
      /\ numEntries \in Nat /\ updatedSeq \in Nat
      /\ \A u \in Threads : Space(u) \in Spaces /\ Space(u)' = Space(u)
  BY DEF TypeInv, DataType, ControlInv, ControlType, Space, Spaces, Threads, MainThreads
<1>1. ASSUME UNCHANGED <<numEntries, updatedSeq, cursor, torn>>,
             pc[c] \notin {"attach", "sync", "dead", "segv"},
             \A s \in Spaces : /\ mem'[s].lastSeq = mem[s].lastSeq
                               /\ mem'[s].nextIndex = mem[s].nextIndex,
             \E w \in Places \ {"sync", "crashed", "dead"} : pc' = [pc EXCEPT ![c] = w],
             \E l \in Calls \ {"IncUnwanted"} : call' = [call EXCEPT ![c] = l]
      PROVE  SeqFacts'
  <2>1. SeqKept
    BY <1>0, <1>1 DEF SeqKept, SeqFacts, Live, Whole
  <2>2. QED
    BY <2>1, SeqStill
<1>2. CASE CreateInput(c) \/ GetItem(c) \/ SyncCounters(c) \/ NothingNew(c) \/ AddSeen(c)
           \/ \E k \in Keys : FoundCoverage(c, k)
  <2>1. call = [call EXCEPT ![c] = call[c]] /\ call[c] \in Calls \ {"IncUnwanted"}
    BY <1>0 DEF SeqFacts
  <2>2. /\ UNCHANGED <<numEntries, updatedSeq, torn, mem, cursor>> /\ pc[c] \in {"loop", "target", "held"}
        /\ \E w \in {"target", "pick", "wait", "enter", "loop", "unlock"} : pc' = [pc EXCEPT ![c] = w]
        /\ \E l \in Calls \ {"IncUnwanted"} : call' = [call EXCEPT ![c] = l]
    <3>1. CASE CreateInput(c)
      BY <3>1 DEF CreateInput, Enter, Goto, Calls, None, shared, history
    <3>2. CASE GetItem(c)
      BY <3>2 DEF GetItem, Enter, Goto, Calls, None, shared
    <3>3. CASE SyncCounters(c)
      BY <3>3 DEF SyncCounters, Enter, Goto, Calls, None, shared, history
    <3>4. CASE NothingNew(c)
      BY <2>1, <3>4 DEF NothingNew, Goto, shared, history
    <3>5. CASE AddSeen(c)
      BY <2>1, <3>5 DEF AddSeen, Goto, shared, history
    <3>6. ASSUME NEW k \in Keys, FoundCoverage(c, k)
          PROVE  /\ UNCHANGED <<numEntries, updatedSeq, torn, mem, cursor>> /\ pc[c] = "target"
                 /\ \E w \in {"wait", "loop"} : pc' = [pc EXCEPT ![c] = w]
                 /\ \E l \in Calls \ {"IncUnwanted"} : call' = [call EXCEPT ![c] = l]
      BY <2>1, <3>6 DEF FoundCoverage, Enter, Goto, Calls, None, shared, history
    <3>7. QED
      BY <1>2, <3>1, <3>2, <3>3, <3>4, <3>5, <3>6
  <2>3. QED
    BY <1>1, <2>2 DEF Places
<1>3. CASE PickItem(c) \/ CountersHeld(c) \/ AddWrite(c)
  <2>1. call = [call EXCEPT ![c] = call[c]] /\ call[c] \in Calls \ {"IncUnwanted"}
    BY <1>0 DEF SeqFacts
  <2>2. /\ UNCHANGED <<numEntries, updatedSeq, torn, cursor>> /\ pc[c] \in {"pick", "held"}
        /\ \E w \in {"target", "unlock", "publish"} : pc' = [pc EXCEPT ![c] = w]
        /\ \E l \in Calls \ {"IncUnwanted"} : call' = [call EXCEPT ![c] = l]
        /\ \E snap, n : mem' = [mem EXCEPT ![c] = [mem[c] EXCEPT !.lastItem = n, !.snapshots = snap]]
    <3>1. CASE PickItem(c)
      <4>1. \E snap, n : mem' = [mem EXCEPT ![c] = [mem[c] EXCEPT !.lastItem = n, !.snapshots = snap]]
        <5>1. PICK i \in 1..Len(mem[c].snapshots) :
                mem' = [mem EXCEPT ![c].lastItem = i,
                                   ![c].snapshots[i].new = (@ + 1) % (MaxCount + 1)]
          BY <3>1 DEF PickItem
        <5>2. \E snap : mem' = [mem EXCEPT ![c] = [mem[c] EXCEPT !.lastItem = i, !.snapshots = snap]]
          BY <1>0, <5>1 DEF Local
        <5>3. QED
          BY <5>2
      <4>2. QED
        BY <3>1, <4>1 DEF PickItem, Enter, Goto, Calls, None, shared, history
    <3>2. mem[c] = [mem[c] EXCEPT !.lastItem = mem[c].lastItem]
      BY <1>0 DEF Local
    <3>3. CASE CountersHeld(c)
      <4>1. mem' = [mem EXCEPT ![c] = [mem[c] EXCEPT !.lastItem = mem[c].lastItem,
                                         !.snapshots = FlushFrom(items, mem[c].snapshots)]]
        BY <1>0, <3>2, <3>3 DEF CountersHeld, Local
      <4>2. QED
        BY <2>1, <3>3, <4>1 DEF CountersHeld, Goto, history
    <3>4. CASE AddWrite(c)
      <4>1. \E snap : mem' = [mem EXCEPT ![c].snapshots = snap]
        BY <3>4 DEF AddWrite
      <4>2. \E snap, n : mem' = [mem EXCEPT ![c] = [mem[c] EXCEPT !.lastItem = n, !.snapshots = snap]]
        BY <1>0, <3>2, <4>1 DEF Local
      <4>3. UNCHANGED <<numEntries, updatedSeq, torn, call, cursor>> /\ pc[c] = "held"
            /\ pc' = [pc EXCEPT ![c] = "publish"]
        BY <3>4 DEF AddWrite, Goto, history
      <4>4. QED
        BY <2>1, <4>2, <4>3
    <3>5. QED
      BY <1>3, <3>1, <3>3, <3>4
  <2>3. \A s \in Spaces : mem'[s].lastSeq = mem[s].lastSeq /\ mem'[s].nextIndex = mem[s].nextIndex
    BY <1>0, <2>2 DEF Local
  <2>4. QED
    BY <1>1, <2>2, <2>3 DEF Places
<1>4. CASE AddPublish(c)
  <2>1. /\ pc[c] = "publish" /\ numEntries' = numEntries + 1 /\ updatedSeq' = updatedSeq + 1
        /\ pc' = [pc EXCEPT ![c] = "unlock"] /\ UNCHANGED <<call, torn>>
        /\ mem'[c].lastSeq = updatedSeq + 1 /\ mem'[c].nextIndex = numEntries + 1
        /\ \A r \in Spaces : r # c => mem'[r] = mem[r]
    BY <1>0, <1>4 DEF AddPublish, Goto, Local, history
  <2>2. \A u \in Threads : pc[u] \notin {"attach", "sync"} /\ pc'[u] # "sync"
    BY <1>0, <2>1 DEF TypeInv, Locking, MutualExclusion, InSection
  <2>3. \A r \in Spaces : Live(r)' /\ Whole(r)' /\ ~Stopped(r)' =>
                             Live(r) /\ Whole(r) /\ ~Syncing(r) /\ ~Stopped(r)
    BY <1>0, <2>1, <2>2 DEF Live, Whole, Syncing, Stopped, Threads
  <2>4. \A r \in Spaces : Live(r)' /\ Whole(r)' /\ ~Stopped(r)' => mem'[r].lastSeq = mem'[r].nextIndex
    BY <2>1, <2>3 DEF SeqFacts
  <2>5. \A d \in Tracees : pc'[d] # "crashed"
    BY <1>0, <2>1 DEF SeqFacts
  <2>6. \A r \in Spaces : mem'[r].nextIndex <= numEntries'
    <3>1. \A r \in Spaces : mem[r].nextIndex \in Nat
      BY <1>0 DEF Local
    <3>2. QED
      BY <1>0, <2>1, <3>1 DEF SeqFacts
  <2>7. QED
    BY <2>1, <2>2, <2>4, <2>5, <2>6 DEF SeqFacts
<1>6. ~CountersNull(c)
  <2>1. nCrashes + 1 # 0
    BY DEF TypeInv, ControlInv, ControlType
  <2>2. QED
    BY <2>1 DEF CountersNull, Trusted
<1>5. QED
  BY <1>0, <1>2, <1>3, <1>4, <1>6, SeqCall, TraceeStep(c) DEF TraceeStep

LEMMA SeqMonitor ==
  ASSUME TypeInv, SeqFacts, NEW m \in Monitors, MonitorStep(m)
  PROVE  SeqFacts'
<1>0. /\ m \in Threads /\ m \notin Tracees /\ Tracees \subseteq Threads /\ Tracees \subseteq Spaces
      /\ Main \in Spaces /\ Main \notin Tracees /\ torn \in [Tracees -> BOOLEAN]
      /\ pc \in [Threads -> Places] /\ mem \in [Spaces -> Local] /\ call \in [Threads -> Calls]
      /\ \A u \in Threads : Space(u) \in Spaces /\ Space(u)' = Space(u)
      /\ m \in MainThreads
  BY ActorsAssumption DEF Threads, MainThreads, Space, Spaces, TypeInv, ControlInv, ControlType, DataType
<1>1. ASSUME NEW c \in Tracees, Fork(m, c) PROVE SeqFacts'
  <2>1. /\ UNCHANGED <<numEntries, updatedSeq, cursor>> /\ pc[m] = "spawn" /\ pc[c] = "dead"
        /\ mem' = [mem EXCEPT ![c] = mem[Main]]
        /\ pc' = [pc EXCEPT ![m] = "watch", ![c] = "enter"]
        /\ call' = [call EXCEPT ![c] = "Sync"]
        /\ torn' = [torn EXCEPT ![c] = \E t \in MainThreads : pc[t] \in {"attach", "sync", "pointer"}]
    BY <1>1 DEF Fork, shared
  <2>2. \A t \in Threads :
          /\ pc'[t] \in {"attach", "sync"} => pc'[t] = pc[t] /\ t # c
          /\ pc[t] \in {"attach", "sync", "segv"} => pc'[t] = pc[t]
    BY <1>0, <2>1
  <2>3. \A s \in Spaces : Syncing(s) => Syncing(s)'
    BY <1>0, <2>2 DEF Syncing
  <2>4. Whole(c)' => ~Syncing(Main)
    <3>1. \A t \in Threads : Space(t) = Main => t \in MainThreads
      BY <1>0 DEF Space, Threads
    <3>2. torn'[c] = \E t \in MainThreads : pc[t] \in {"attach", "sync", "pointer"}
      BY <1>0, <2>1
    <3>3. QED
      BY <3>1, <3>2 DEF Whole, Syncing
  <2>5. Live(Main) /\ Whole(Main) /\ ~Stopped(Main)
    BY <1>0, <2>1 DEF Live, Whole, Stopped
  <2>6. ASSUME NEW s \in Spaces, Live(s)', Whole(s)', ~Syncing(s)', ~Stopped(s)'
        PROVE  mem'[s].lastSeq = mem'[s].nextIndex
    <3>1. CASE s = c
      <4>1. mem[Main].lastSeq = mem[Main].nextIndex
        BY <1>0, <2>4, <2>5, <2>6, <3>1 DEF SeqFacts
      <4>2. QED
        BY <1>0, <2>1, <3>1, <4>1
    <3>2. CASE s # c
      <4>1. Live(s) /\ Whole(s) /\ mem'[s] = mem[s]
        BY <1>0, <2>1, <2>6, <3>2 DEF Live, Whole
      <4>2. ~Syncing(s) /\ ~Stopped(s)
        BY <2>2, <2>3, <2>6 DEF Stopped, Threads
      <4>3. QED
        BY <2>6, <4>1, <4>2 DEF SeqFacts
    <3>3. QED
      BY <3>1, <3>2
  <2>7. \A t \in Threads : pc'[t] = "sync" =>
            mem'[Space(t)'].lastSeq = updatedSeq' /\ cursor'[t] <= numEntries'
    <3>1. \A t \in Threads : pc'[t] = "sync" => Space(t) # c
      BY <1>0, <2>2 DEF Space
    <3>2. QED
      BY <1>0, <2>1, <2>2, <3>1 DEF SeqFacts
  <2>8. /\ \A d \in Tracees : pc'[d] # "crashed"
        /\ \A t \in Threads : call'[t] # "IncUnwanted"
    BY <1>0, <2>1 DEF SeqFacts
  <2>9. \A s \in Spaces : mem'[s].nextIndex <= numEntries'
    BY <1>0, <2>1 DEF SeqFacts
  <2>10. QED
    BY <2>1, <2>6, <2>7, <2>8, <2>9 DEF SeqFacts
<1>2. ~(\E c \in Tracees : HandleException(m, c)) /\ ~UnwantedHeld(m) /\ ~UnwantedNull(m)
  BY <1>0 DEF SeqFacts, HandleException, UnwantedHeld, UnwantedNull
<1>3. QED
  BY <1>0, <1>1, <1>2, SeqCall, MonitorStep(m) DEF MonitorStep

LEMMA SeqStatus ==
  ASSUME TypeInv, SeqFacts, NEW s \in Printers, StatusStep(s)
  PROVE  SeqFacts'
<1>0. /\ s \in Threads /\ s \notin Tracees /\ Tracees \subseteq Threads /\ Main \in Spaces
      /\ Main \notin Tracees /\ MainThreads \cap Tracees = {} /\ Threads = MainThreads \cup Tracees
      /\ pc \in [Threads -> Places] /\ call \in [Threads -> Calls]
      /\ mem \in [Spaces -> Local] /\ numEntries \in Nat
  BY ActorsAssumption DEF Threads, MainThreads, Spaces, TypeInv, ControlInv, ControlType, DataType
<1>1. CASE PrintStatus(s)
  <2>1. /\ UNCHANGED <<numEntries, updatedSeq, mem, cursor, torn>> /\ pc[s] = "idle"
        /\ pc' = [pc EXCEPT ![s] = "enter"] /\ call' = [call EXCEPT ![s] = "Sync"]
    BY <1>1 DEF PrintStatus, Enter, Goto, shared, history
  <2>2. SeqKept
    BY <1>0, <2>1 DEF SeqKept, SeqFacts, Live, Whole
  <2>3. QED
    BY <2>2, SeqStill
<1>2. CASE PrintDecay(s)
  <2>1. UNCHANGED <<numEntries, updatedSeq, mem, cursor, torn, call>> /\ pc[s] = "print"
    BY <1>2 DEF PrintDecay, shared, history
  <2>2. CASE Segv
    <3>1. pc' = [t \in Threads |-> IF t \in MainThreads THEN "segv" ELSE pc[t]]
      BY <2>2 DEF Segv
    <3>2. Stopped(Main)'
      BY <1>0, <3>1 DEF Stopped
    <3>3. ASSUME NEW r \in Spaces, Live(r)', Whole(r)', ~Syncing(r)', ~Stopped(r)'
          PROVE  mem'[r].lastSeq = mem'[r].nextIndex
      <4>1. r # Main /\ r \in Tracees /\ ~Stopped(r)
        BY <3>2, <3>3 DEF Spaces, Stopped
      <4>2. \A t \in Threads : Space(t) = r => pc'[t] = pc[t]
        BY <1>0, <3>1, <4>1 DEF Space
      <4>3. Live(r) /\ Whole(r) /\ ~Syncing(r)
        BY <1>0, <2>1, <3>1, <3>3, <4>1, <4>2 DEF Live, Whole, Syncing, Space
      <4>4. QED
        BY <2>1, <4>1, <4>3 DEF SeqFacts
    <3>4. \A t \in Threads : /\ pc'[t] = "sync" => pc[t] = "sync"
                             /\ Space(t)' = Space(t)
      BY <3>1 DEF Space
    <3>5. \A c \in Tracees : pc'[c] # "crashed"
      BY <1>0, <3>1 DEF SeqFacts
    <3>6. QED
      BY <2>1, <3>3, <3>4, <3>5 DEF SeqFacts
  <2>3. CASE pc' = [pc EXCEPT ![s] = "idle"]
    <3>1. SeqKept
      BY <1>0, <2>1, <2>3 DEF SeqKept, SeqFacts, Live, Whole
    <3>2. QED
      BY <3>1, SeqStill
  <2>4. QED
    BY <1>2, <2>2, <2>3 DEF PrintDecay, Goto
<1>3. QED
  BY <1>0, <1>1, <1>2, SeqCall, StatusStep(s) DEF StatusStep

LEMMA SeqFault ==
  ASSUME TypeInv, SeqFacts, Fault, Trusted'
  PROVE  SeqFacts'
<1>0. /\ Tracees \subseteq Threads /\ Tracees \subseteq Spaces /\ Monitors \subseteq Threads
      /\ Monitors \cap Tracees = {} /\ Main \notin Tracees
      /\ pc \in [Threads -> Places] /\ call \in [Threads -> Calls] /\ mem \in [Spaces -> Local]
      /\ torn \in [Tracees -> BOOLEAN] /\ nCrashes \in Nat /\ nRestarts \in Nat
      /\ \A u \in Threads : Space(u) \in Spaces /\ Space(u)' = Space(u)
      /\ Main \in Spaces /\ numEntries \in Nat /\ cursor \in [Threads -> Nat]
      /\ MainThreads \subseteq Threads /\ MainThreads \cap Tracees = {}
  BY ActorsAssumption DEF Threads, MainThreads, Space, Spaces, TypeInv, ControlInv, ControlType, DataType
<1>1. ~\E c \in Tracees : Crash(c)
  <2>1. nCrashes + 1 # 0
    BY <1>0
  <2>2. QED
    BY <2>1 DEF Crash, Trusted
<1>2. ASSUME NEW m \in Monitors, NEW c \in Tracees, Kill(m, c) PROVE SeqFacts'
  <2>1. /\ UNCHANGED <<numEntries, updatedSeq>> /\ pc[m] = "watch"
        /\ mem' = [mem EXCEPT ![c] = Blank] /\ torn' = [torn EXCEPT ![c] = FALSE]
        /\ pc' = [pc EXCEPT ![c] = "dead", ![m] = "spawn"] /\ call' = [call EXCEPT ![c] = None]
    BY <1>2 DEF Kill, Reap, shared
  <2>7. \A t \in Threads : t # c => cursor'[t] = cursor[t]
    BY <1>0, <1>2 DEF Kill, Reap
  <2>2. /\ \A t \in Threads : t # c /\ t # m => pc'[t] = pc[t]
        /\ pc'[c] = "dead" /\ pc'[m] = "spawn" /\ m # c /\ m \in MainThreads
        /\ \A d \in Tracees : d # c => pc'[d] = pc[d]
    BY <1>0, <2>1 DEF MainThreads
  <2>3. ASSUME NEW s \in Spaces, Live(s)', Whole(s)', ~Syncing(s)', ~Stopped(s)'
        PROVE  mem'[s].lastSeq = mem'[s].nextIndex
    <3>1. s # c
      BY <2>2, <2>3 DEF Live
    <3>2. Live(s) /\ Whole(s) /\ mem'[s] = mem[s]
      BY <1>0, <2>1, <2>2, <2>3, <3>1 DEF Live, Whole
    <3>3. ~Syncing(s)
      BY <1>0, <2>1, <2>2, <2>3, <3>1 DEF Syncing, Space
    <3>5. ~Stopped(s)
      BY <2>1, <2>2 DEF Stopped
    <3>4. QED
      BY <3>2, <3>3, <3>5 DEF SeqFacts
  <2>4. \A t \in Threads : pc'[t] = "sync" =>
            mem'[Space(t)'].lastSeq = updatedSeq' /\ cursor'[t] <= numEntries'
    <3>1. \A t \in Threads : pc'[t] = "sync" => Space(t) # c /\ t # c /\ pc[t] = "sync"
      BY <1>0, <2>2 DEF Space
    <3>2. QED
      BY <1>0, <2>1, <2>7, <3>1 DEF SeqFacts
  <2>5. /\ \A d \in Tracees : pc'[d] # "crashed"
        /\ \A t \in Threads : call'[t] # "IncUnwanted"
    BY <1>0, <2>1 DEF SeqFacts, None
  <2>8. \A s \in Spaces : mem'[s].nextIndex <= numEntries'
    <3>1. Blank.nextIndex = 0
      BY DEF Blank
    <3>2. QED
      BY <1>0, <2>1, <3>1 DEF SeqFacts
  <2>6. QED
    BY <2>1, <2>3, <2>4, <2>5, <2>8 DEF SeqFacts
<1>3. CASE Restart
  <2>1. /\ UNCHANGED <<numEntries, updatedSeq>> /\ mem' = FreshMem /\ pc' = FreshPc
        /\ call' = [t \in Threads |-> None] /\ UninitSeq = 0
    <3>1. nRestarts + 1 # 0
      BY <1>0
    <3>2. QED
      BY <1>3, <3>1 DEF Restart, Trusted, shared
  <2>2. \A t \in Threads : pc'[t] \in {"spawn", "idle", "dead"}
    BY <2>1 DEF FreshPc
  <2>3. \A c \in Tracees : pc'[c] = "dead"
    BY <1>0, <2>1, ActorsAssumption DEF FreshPc
  <2>4. mem'[Main].lastSeq = mem'[Main].nextIndex
    <3>1. mem'[Main] = InitObject
      BY <2>1 DEF FreshMem, Spaces
    <3>2. InitObject.lastSeq = InitObject.nextIndex
      BY <2>1 DEF InitObject, Blank, SeqFacts
    <3>3. QED
      BY <3>1, <3>2
  <2>5. \A s \in Spaces : mem'[s].nextIndex <= numEntries'
    <3>1. Blank.nextIndex = 0 /\ InitObject.nextIndex \in {0, numEntries}
      BY <2>1 DEF InitObject, Blank
    <3>2. QED
      BY <1>0, <2>1, <3>1 DEF FreshMem
  <2>6. QED
    BY <1>0, <2>1, <2>2, <2>3, <2>4, <2>5 DEF SeqFacts, Live, Spaces, None
<1>4. QED
  BY <1>1, <1>2, <1>3, Fault DEF Fault

SeqInv == Trusted => SeqFacts

LEMMA TrustedStep == TypeInv /\ [Next]_vars /\ Trusted' => Trusted
<1> SUFFICES ASSUME TypeInv, [Next]_vars, Trusted' PROVE Trusted
  OBVIOUS
<1>1. nCrashes \in Nat /\ nRestarts \in Nat
  BY DEF TypeInv, ControlInv, ControlType
<1>2. /\ nCrashes' = nCrashes \/ nCrashes' = nCrashes + 1
      /\ nRestarts' = nRestarts \/ nRestarts' = nRestarts + 1
  <2>1. ASSUME NEW t, CallStep(t) PROVE UNCHANGED <<nCrashes, nRestarts>>
    BY <2>1 DEF CallStep, SyncCheck, Acquire, Attach, SyncItem, SyncIndex, SyncEnd, Release, history
  <2>2. ASSUME NEW c \in Tracees, TraceeStep(c)
        PROVE  nCrashes' \in {nCrashes, nCrashes + 1} /\ nRestarts' = nRestarts
    BY <2>1, <2>2 DEF TraceeStep, CreateInput, GetItem, PickItem, SyncCounters, NothingNew,
       FoundCoverage, AddSeen, AddWrite, AddPublish, CountersHeld, CountersNull, history
  <2>3. ASSUME NEW m \in Monitors, MonitorStep(m) PROVE UNCHANGED <<nCrashes, nRestarts>>
    BY <2>1, <2>3 DEF MonitorStep, Fork, HandleException, UnwantedHeld, UnwantedNull, history
  <2>4. ASSUME NEW s \in Printers, StatusStep(s) PROVE UNCHANGED <<nCrashes, nRestarts>>
    BY <2>1, <2>4 DEF StatusStep, PrintStatus, PrintDecay, history
  <2>5. CASE Fault
    BY <2>5 DEF Fault, Crash, Kill, Restart
  <2>6. CASE UNCHANGED vars
    BY <2>6 DEF vars, history
  <2>7. QED
    BY <2>2, <2>3, <2>4, <2>5, <2>6 DEF Next
<1>3. QED
  BY <1>1, <1>2 DEF Trusted

LEMMA SeqStep == TypeInv /\ SeqInv /\ [Next]_vars => SeqInv'
<1> SUFFICES ASSUME TypeInv, SeqInv, [Next]_vars, Trusted'
             PROVE  SeqFacts'
  BY DEF SeqInv
<1>1. SeqFacts
  BY TrustedStep DEF SeqInv
<1>2. CASE UNCHANGED vars
  <2>1. UNCHANGED <<numEntries, updatedSeq, mem, pc, call, cursor, torn>>
    BY <1>2 DEF vars, shared, control, history
  <2>2. SeqKept
    BY <1>1, <2>1 DEF SeqKept, SeqFacts, Live, Whole
  <2>3. QED
    BY <1>1, <2>2, SeqStill
<1>3. QED
  BY <1>1, <1>2, SeqTracee, SeqMonitor, SeqStatus, SeqFault DEF Next

LEMMA SeqImplies == SeqInv => (Trusted => SyncedMeansComplete)
<1> SUFFICES ASSUME SeqFacts,
                    NEW t \in Threads, pc[t] \notin {"dead", "segv"}, Whole(Space(t)),
                    Object(t).lastSeq = updatedSeq,
                    \A u \in Threads : InSection(u) => Space(u) # Space(t)
             PROVE  Object(t).nextIndex = numEntries
  BY DEF SeqInv, SyncedMeansComplete
<1>1. Space(t) \in Spaces
  BY DEF Space, Spaces, Threads, MainThreads
<1>2. Live(Space(t))
  BY ActorsAssumption DEF Live, Space
<1>3. ~Syncing(Space(t)) /\ ~Stopped(Space(t))
  BY ActorsAssumption DEF Syncing, InSection, Stopped, Space, Threads
<1>4. QED
  BY <1>1, <1>2, <1>3 DEF SeqFacts, Object

\* Bailing out of Sync loses nothing as long as no tracee has crashed: a process that
\* is not inside the section and whose sequence number is the map's has every entry,
\* for any number of processes and kills, and for any number of restarts if the
\* constructor leaves a zero in last_updated_seq.  A crash ends this (IncUnwanted).
THEOREM SyncLosesNothing == Spec => [](Trusted => SyncedMeansComplete)
<1>1. Init => SeqInv
  BY SeqInit DEF SeqInv
<1>2. QED
  BY <1>1, BaseInit, TypeStep, SeqStep, SeqImplies, PTL DEF Spec

-----------------------------------------------------------------------------
(* The objects and the picks they hold.                                     *)

\* The picks of item i that object o has not flushed.
Held(o, i) == IF i <= Len(o.snapshots) THEN o.snapshots[i].new ELSE 0

Linked(o) ==
  /\ o.lastItem <= Len(o.snapshots)
  /\ ~o.attached => Len(o.snapshots) = 0

\* t has passed the lines of SyncInner that attach the object.
AtMap(t) == pc[t] \in {"attach", "sync", "pointer"} \/ (pc[t] = "held" /\ call[t] = "Add")

\* c has called GetItem and not yet picked.
Pending(c) == pc[c] = "pick" \/ call[c] = "GetItem"

Positions == Nat \ {0}

ObjectInv ==
  /\ \A s \in Spaces : Linked(mem[s])
  /\ \A t \in Threads : AtMap(t) => mem[Space(t)].attached
  /\ \A c \in Tracees, i \in Positions :
       /\ pc[c] = "dead" => Held(mem[c], i) = 0
       /\ Held(mem[c], i) <= nPicks
       /\ Pending(c) => Held(mem[c], i) < nPicks
  /\ \A i \in Positions : Held(mem[Main], i) = 0
  /\ nPicks <= MaxPicks

LEMMA HeldType ==
  ASSUME NEW o \in Local, NEW i \in Positions
  PROVE  Held(o, i) \in Counter /\ Held(o, i) \in Nat
<1>1. o.snapshots \in Seq(Entry) /\ 0 \in Counter
  BY BoundsAssumption DEF Local, Counter
<1>2. CASE i <= Len(o.snapshots)
  <2>1. o.snapshots[i] \in Entry
    BY <1>1, <1>2 DEF Positions
  <2> QED BY <1>2, <2>1 DEF Held, Entry, Counter
<1>3. CASE ~(i <= Len(o.snapshots))
  BY <1>1, <1>3 DEF Held
<1> QED BY <1>2, <1>3

LEMMA EmptyObject ==
  ASSUME NEW o \in Local, o.snapshots = <<>>
  PROVE  (\A i \in Positions : Held(o, i) = 0) /\ (o.lastItem = 0 => Linked(o))
BY DEF Held, Linked, Positions, Local

\* What InitObject and Blank hold.
LEMMA FreshObjects ==
  ASSUME items \in Seq(Header), numEntries \in Nat, numEntries <= Len(items), NEW s \in Spaces
  PROVE  Linked(FreshMem[s]) /\ \A i \in Positions : Held(FreshMem[s], i) = 0
<1>1. Linked(Blank) /\ \A i \in Positions : Held(Blank, i) = 0
  BY DEF Blank, Linked, Held, Positions
<1>2. CASE UninitSeq = updatedSeq \/ s # Main
  BY <1>1, <1>2 DEF FreshMem, InitObject
<1>3. CASE UninitSeq # updatedSeq /\ s = Main
  <2> DEFINE snap == [i \in 1..numEntries |-> Mirror(items[i], i)]
             o == FreshMem[s]
  <2>1. o.snapshots = snap /\ o.attached = TRUE /\ o.lastItem = 0
    BY <1>3, InitObjectPlain DEF FreshMem, Blank
  <2>2. Len(snap) = numEntries
    <3>1. snap \in [1..numEntries -> {Mirror(items[i], i) : i \in 1..numEntries}]
      OBVIOUS
    <3> QED BY <3>1, FunctionIsSeq
  <2>3. \A i \in 1..numEntries : snap[i].new = 0
    BY DEF Mirror
  <2> HIDE DEF snap, o
  <2>4. Linked(o)
    BY <2>1, <2>2 DEF Linked
  <2>5. \A i \in Positions : Held(o, i) = 0
    BY <2>1, <2>2, <2>3 DEF Held, Positions
  <2> QED BY <2>4, <2>5 DEF o
<1> QED BY <1>2, <1>3

LEMMA ObjectInit == Init => ObjectInv
<1> SUFFICES ASSUME Init PROVE ObjectInv
  OBVIOUS
<1>1. items \in Seq(Header) /\ numEntries \in Nat /\ numEntries <= Len(items) /\ mem = FreshMem
  BY EmptySeq DEF Init
<1>2. /\ \A s \in Spaces : Linked(mem[s])
      /\ \A s \in Spaces, i \in Positions : Held(mem[s], i) = 0
  BY <1>1, FreshObjects
<1>3. \A t \in Threads : ~AtMap(t) /\ ~Pending(t)
  BY DEF Init, FreshPc, AtMap, Pending, None
<1>4. nPicks = 0 /\ 0 <= MaxPicks
  BY BoundsAssumption DEF Init
<1> QED BY <1>2, <1>3, <1>4 DEF ObjectInv, Spaces, Threads, MainThreads

\* A step that leaves in each object the picks it had, or none.
LEMMA ObjectStill ==
  ASSUME ObjectInv, BaseInv, nPicks' \in Nat, nPicks' >= nPicks, nPicks' <= MaxPicks,
         \A s \in Spaces : /\ Linked(mem'[s])
                           /\ \A i \in Positions : Held(mem'[s], i) \in {0, Held(mem[s], i)},
         \A t \in Threads : AtMap(t)' => mem'[Space(t)].attached,
         \A c \in Tracees :
           /\ pc'[c] = "dead" => \/ pc[c] = "dead"
                                 \/ \A i \in Positions : Held(mem'[c], i) = 0
           /\ Pending(c)' => Pending(c) \/ nPicks' > nPicks
  PROVE  ObjectInv'
<1>1. Tracees \subseteq Spaces /\ Main \in Spaces /\ mem \in [Spaces -> Local] /\ nPicks \in Nat
  BY DEF Spaces, BaseInv, DataInv, DataType, ControlInv, ControlType
<1>2. \A s \in Spaces, i \in Positions : Held(mem[s], i) \in Nat
  BY <1>1, HeldType
<1>3. \A t \in Threads : Space(t)' = Space(t)
  BY DEF Space
<1>4. ASSUME NEW c \in Tracees, NEW i \in Positions
      PROVE  /\ pc'[c] = "dead" => Held(mem'[c], i) = 0
             /\ Held(mem'[c], i) <= nPicks'
             /\ Pending(c)' => Held(mem'[c], i) < nPicks'
  <2>1. Held(mem'[c], i) \in {0, Held(mem[c], i)} /\ Held(mem[c], i) \in Nat
    BY <1>1, <1>2
  <2>2. Held(mem[c], i) <= nPicks /\ (Pending(c) => Held(mem[c], i) < nPicks)
    BY DEF ObjectInv
  <2>3. pc'[c] = "dead" => Held(mem'[c], i) = 0
    BY <2>1 DEF ObjectInv
  <2> QED BY <1>1, <2>1, <2>2, <2>3
<1>5. \A i \in Positions : Held(mem'[Main], i) = 0
  BY <1>1 DEF ObjectInv
<1> HIDE DEF Held, Linked
<1> QED BY <1>3, <1>4, <1>5 DEF ObjectInv

-----------------------------------------------------------------------------
(* The picks of an item, summed over the processes.                         *)

\* f: how many picks each address space holds.
Pairs(f) == {h \in Spaces \X (1..MaxCount) : h[2] <= f[h[1]]}

LEMMA PairsFinite ==
  ASSUME IsFiniteSet(Spaces), NEW f
  PROVE  IsFiniteSet(Pairs(f)) /\ Cardinality(Pairs(f)) \in Nat
<1>1. IsFiniteSet(1..MaxCount)
  BY BoundsAssumption, FS_Interval
<1>2. IsFiniteSet(Spaces \X (1..MaxCount))
  BY <1>1, FS_Product
<1>3. Pairs(f) \in SUBSET (Spaces \X (1..MaxCount))
  BY DEF Pairs
<1> QED BY <1>2, <1>3, FS_Subset, FS_CardinalityType

\* The pairs of s, and the others.
LEMMA PairsSplit ==
  ASSUME IsFiniteSet(Spaces), NEW f, NEW s \in Spaces, f[s] \in Counter
  PROVE  /\ Cardinality(Pairs(f)) = Cardinality({h \in Pairs(f) : h[1] # s}) + f[s]
         /\ Cardinality({h \in Pairs(f) : h[1] # s}) \in Nat
<1> DEFINE A == {h \in Pairs(f) : h[1] # s}
           B == {s} \X (1..f[s])
<1>1. f[s] \in Nat /\ f[s] <= MaxCount /\ MaxCount \in Nat
  BY BoundsAssumption DEF Counter
<1>2. Pairs(f) = A \cup B
  <2>1. ASSUME NEW h \in Pairs(f), h[1] = s PROVE h \in B
    <3>1. h \in Spaces \X (1..MaxCount) /\ h[2] <= f[s]
      BY <2>1 DEF Pairs
    <3>2. h = <<h[1], h[2]>> /\ h[2] \in 1..MaxCount
      BY <3>1
    <3>3. h[2] \in 1..f[s]
      BY <1>1, <3>1, <3>2
    <3> QED BY <2>1, <3>2, <3>3
  <2>2. ASSUME NEW h \in B PROVE h \in Pairs(f)
    <3>1. PICK k \in 1..f[s] : h = <<s, k>>
      BY <2>2
    <3>2. k \in 1..MaxCount /\ k <= f[s]
      BY <1>1
    <3> QED BY <3>1, <3>2 DEF Pairs
  <2> QED BY <2>1, <2>2
<1>3. IsFiniteSet(A) /\ Cardinality(A) \in Nat
  <2>1. A \in SUBSET Pairs(f)
    OBVIOUS
  <2> QED BY <2>1, PairsFinite, FS_Subset, FS_CardinalityType
<1>4. IsFiniteSet(B) /\ Cardinality(B) = f[s]
  <2>1. IsFiniteSet({s}) /\ Cardinality({s}) = 1
    BY FS_Singleton
  <2>2. IsFiniteSet(1..f[s]) /\ Cardinality(1..f[s]) = f[s]
    <3>1. \A k \in Nat : IsFiniteSet(1..k) /\ Cardinality(1..k) = k
      BY FS_Interval
    <3> QED BY <1>1, <3>1
  <2>3. IsFiniteSet(B) /\ Cardinality(B) = 1 * f[s]
    BY <2>1, <2>2, FS_Product
  <2> QED BY <1>1, <2>3
<1>5. A \cap B = {}
  OBVIOUS
<1> HIDE DEF A, B
<1>6. Cardinality(A \cup B) = Cardinality(A) + Cardinality(B) - Cardinality(A \cap B)
  BY <1>3, <1>4, FS_Union
<1>7. Cardinality(A \cup B) = Cardinality(A) + f[s]
  <2>1. Cardinality(A \cap B) = 0
    BY <1>5, FS_EmptySet
  <2> QED BY <1>1, <1>3, <1>4, <1>6, <2>1
<1> QED BY <1>2, <1>3, <1>7 DEF A

LEMMA PairsChange ==
  ASSUME IsFiniteSet(Spaces), NEW f, NEW g, NEW s \in Spaces, f[s] \in Counter, g[s] \in Counter,
         \A r \in Spaces : r # s => g[r] = f[r]
  PROVE  Cardinality(Pairs(g)) + f[s] = Cardinality(Pairs(f)) + g[s]
<1>1. {h \in Pairs(g) : h[1] # s} = {h \in Pairs(f) : h[1] # s}
  BY DEF Pairs
<1>2. f[s] \in Nat /\ g[s] \in Nat
  BY BoundsAssumption DEF Counter
<1>3. Cardinality(Pairs(f)) = Cardinality({h \in Pairs(f) : h[1] # s}) + f[s]
      /\ Cardinality({h \in Pairs(f) : h[1] # s}) \in Nat
  BY PairsSplit
<1>4. Cardinality(Pairs(g)) = Cardinality({h \in Pairs(g) : h[1] # s}) + g[s]
  BY PairsSplit
<1> QED BY <1>1, <1>2, <1>3, <1>4

\* The picks of item i that the processes hold, if their objects are m.
LEMMA PicksAre ==
  ASSUME NEW m \in [Spaces -> Local], NEW i \in Positions
  PROVE  {h \in Spaces \X (1..MaxCount) :
            LET snap == m[h[1]].snapshots IN i <= Len(snap) /\ h[2] <= snap[i].new}
         = Pairs([s \in Spaces |-> Held(m[s], i)])
<1> DEFINE P == {h \in Spaces \X (1..MaxCount) :
                   LET snap == m[h[1]].snapshots IN i <= Len(snap) /\ h[2] <= snap[i].new}
           f == [s \in Spaces |-> Held(m[s], i)]
<1>1. ASSUME NEW h \in Spaces \X (1..MaxCount)
      PROVE  h \in P <=> h[2] <= Held(m[h[1]], i)
  <2>1. h[1] \in Spaces /\ h[2] \in 1..MaxCount /\ h[2] \in Nat /\ ~(h[2] <= 0)
    BY BoundsAssumption
  <2> QED BY <2>1 DEF Held
<1>2. \A h \in Spaces \X (1..MaxCount) : f[h[1]] = Held(m[h[1]], i)
  OBVIOUS
<1>3. P \subseteq Spaces \X (1..MaxCount)
  OBVIOUS
<1> HIDE DEF P, f
<1>4. P = Pairs(f)
  BY <1>1, <1>2, <1>3 DEF Pairs
<1> QED BY <1>4 DEF P, f

PicksKept ==
  \A i \in 1..numEntries : Picks(i)' >= IF Picks(i) < MaxCount THEN Picks(i) ELSE MaxCount

\* A step that takes no pick of item i, or leaves its counter at the end.
LEMMA Balance ==
  ASSUME IsFiniteSet(Spaces), BaseInv, BaseInv', numEntries' >= numEntries,
         NEW i \in 1..numEntries, NEW s \in Spaces,
         \A r \in Spaces : r # s => Held(mem'[r], i) = Held(mem[r], i),
         \/ items'[i].mut + Held(mem'[s], i) >= items[i].mut + Held(mem[s], i)
         \/ items'[i].mut = MaxCount
  PROVE  Picks(i)' >= IF Picks(i) < MaxCount THEN Picks(i) ELSE MaxCount
<1> DEFINE f == [r \in Spaces |-> Held(mem[r], i)]
           g == [r \in Spaces |-> Held(mem'[r], i)]
           F == Cardinality(Pairs(f))
           G == Cardinality(Pairs(g))
<1>1. /\ mem \in [Spaces -> Local] /\ mem' \in [Spaces -> Local] /\ i \in Positions
      /\ items \in Seq(Header) /\ items' \in Seq(Header) /\ i \in 1..Len(items) /\ i \in 1..Len(items')
      /\ MaxCount \in Nat
  BY BoundsAssumption DEF BaseInv, DataInv, DataType, Laid, Positions
<1>2. items[i].mut \in Nat /\ items'[i].mut \in Nat
  <2>1. items[i] \in Header /\ items'[i] \in Header
    BY <1>1
  <2> QED BY <2>1 DEF Header, Counter
<1>3. f[s] \in Counter /\ g[s] \in Counter /\ f[s] \in Nat /\ g[s] \in Nat
  BY <1>1, HeldType
<1>4. G + f[s] = F + g[s] /\ F \in Nat /\ G \in Nat
  <2>1. \A r \in Spaces : r # s => g[r] = f[r]
    OBVIOUS
  <2> HIDE DEF f, g
  <2> QED BY <1>3, <2>1, PairsChange, PairsFinite
<1>5. Picks(i) = items[i].mut + F
  BY <1>1, PicksAre DEF Picks
<1>6. Picks(i)' = items'[i].mut + G
  BY <1>1, PicksAre DEF Picks
<1>7. f[s] = Held(mem[s], i) /\ g[s] = Held(mem'[s], i)
  OBVIOUS
<1>8. \/ items'[i].mut + g[s] >= items[i].mut + f[s]
      \/ items'[i].mut = MaxCount
  BY <1>7
<1> DEFINE a == items[i].mut
           b == items'[i].mut
           x == f[s]
           y == g[s]
<1>9. a \in Nat /\ b \in Nat /\ x \in Nat /\ y \in Nat /\ F \in Nat /\ G \in Nat /\ MaxCount \in Nat
      /\ G + x = F + y /\ (b + y >= a + x \/ b = MaxCount)
  BY <1>1, <1>2, <1>3, <1>4, <1>8
<1> HIDE DEF f, g, F, G, a, b, x, y
<1>10. b + G >= IF a + F < MaxCount THEN a + F ELSE MaxCount
  BY <1>9
<1> QED BY <1>5, <1>6, <1>10 DEF a, b

-----------------------------------------------------------------------------
(* The steps keep the objects in order, and the picks while nobody dies.    *)

NobodyDied == nCrashes = 0 /\ nKills = 0 /\ nRestarts = 0

\* What has to be so for a step to lose no pick: nobody has died, and the counter of
\* an entry does not wrap.
Conserves ==
  IsFiniteSet(Spaces) /\ NoneAtLimit /\ BaseInv' /\ NobodyDied' /\ SeqFacts => PicksKept

HeldSame == \A s \in Spaces, i \in Positions : Held(mem'[s], i) = Held(mem[s], i)

MutSame == \A i \in 1..numEntries : items'[i].mut = items[i].mut

LEMMA PicksStill ==
  ASSUME BaseInv, numEntries' >= numEntries, HeldSame, MutSame
  PROVE  Conserves
<1> SUFFICES ASSUME IsFiniteSet(Spaces), BaseInv', NEW i \in 1..numEntries
             PROVE  Picks(i)' >= IF Picks(i) < MaxCount THEN Picks(i) ELSE MaxCount
  BY DEF Conserves, PicksKept
<1>1. /\ Main \in Spaces /\ i \in Positions /\ i \in 1..Len(items) /\ items \in Seq(Header)
      /\ mem \in [Spaces -> Local]
  BY DEF Spaces, Positions, BaseInv, DataInv, DataType, Laid
<1>2. items[i].mut \in Nat /\ Held(mem[Main], i) \in Nat
  <2>1. items[i] \in Header /\ Held(mem[Main], i) \in Nat
    BY <1>1, HeldType
  <2> QED BY <2>1 DEF Header, Counter
<1>3. items'[i].mut = items[i].mut /\ \A s \in Spaces : Held(mem'[s], i) = Held(mem[s], i)
  BY <1>1 DEF HeldSame, MutSame
<1>4. items'[i].mut + Held(mem'[Main], i) >= items[i].mut + Held(mem[Main], i)
  <2>1. items'[i].mut + Held(mem'[Main], i) = items[i].mut + Held(mem[Main], i)
    BY <1>1, <1>3
  <2> QED BY <1>2, <2>1
<1> QED BY <1>1, <1>3, <1>4, Balance

\* The threads after a step.
ThreadsFit ==
  /\ nPicks' \in Nat /\ nPicks' >= nPicks /\ nPicks' <= MaxPicks
  /\ \A t \in Threads : AtMap(t)' => AtMap(t)
  /\ \A c \in Tracees : /\ pc'[c] = "dead" => pc[c] = "dead"
                        /\ Pending(c)' => Pending(c) \/ nPicks' > nPicks

LEMMA ObjectsSame ==
  ASSUME ObjectInv, BaseInv, ThreadsFit, HeldSame, MutSame, numEntries' >= numEntries,
         \A s \in Spaces : Linked(mem'[s]) /\ (mem[s].attached => mem'[s].attached)
  PROVE  ObjectInv' /\ Conserves
<1>1. \A t \in Threads : Space(t) \in Spaces
  BY DEF Space, Spaces, Threads, MainThreads
<1>2. \A t \in Threads : AtMap(t)' => mem'[Space(t)].attached
  BY <1>1 DEF ThreadsFit, ObjectInv
<1>3. \A s \in Spaces : \A i \in Positions : Held(mem'[s], i) \in {0, Held(mem[s], i)}
  BY DEF HeldSame
<1>4. ObjectInv'
  BY <1>2, <1>3, ObjectStill DEF ThreadsFit
<1> QED BY <1>4, PicksStill

LEMMA ObjectsUntouched ==
  ASSUME ObjectInv, BaseInv, ThreadsFit, UNCHANGED <<items, numEntries, mem>>
  PROVE  ObjectInv' /\ Conserves
<1>1. HeldSame /\ MutSame /\ numEntries' >= numEntries
  BY DEF HeldSame, MutSame, BaseInv, DataInv, DataType
<1>2. \A s \in Spaces : Linked(mem'[s]) /\ (mem[s].attached => mem'[s].attached)
  BY DEF ObjectInv
<1> QED BY <1>1, <1>2, ObjectsSame

\* A flush: what is taken from the object is added to the headers.
LEMMA FlushMoves ==
  ASSUME NEW hdrs \in Seq(Header), NEW old \in Local, NEW new \in Local,
         new.snapshots = FlushFrom(hdrs, old.snapshots), NEW i \in Positions
  PROVE  /\ Held(new, i) = 0
         /\ i <= Len(hdrs) => \/ FlushTo(hdrs, old.snapshots)[i].mut = hdrs[i].mut + Held(old, i)
                              \/ FlushTo(hdrs, old.snapshots)[i].mut = MaxCount
<1> DEFINE snap == old.snapshots
<1>1. snap \in Seq(Entry) /\ new.snapshots \in Seq(Entry) /\ Len(new.snapshots) = Len(snap)
      /\ Len(snap) \in Nat
  <2>1. snap \in Seq(Entry)
    BY DEF Local
  <2> QED BY <2>1, FlushFromKeeps, FlushFromType DEF EntriesKept
<1>2. Held(new, i) = 0
  <2>1. CASE i <= Len(snap)
    <3>1. i \in 1..Len(snap) /\ snap[i] \in Entry
      BY <1>1, <2>1 DEF Positions
    <3>2. FlushFrom(hdrs, snap)[i].new = 0
      BY <3>1 DEF FlushFrom, Entry
    <3> QED BY <1>1, <2>1, <3>2 DEF Held
  <2>2. CASE ~(i <= Len(snap))
    BY <1>1, <2>2 DEF Held
  <2> QED BY <2>1, <2>2
<1>3. ASSUME i <= Len(hdrs)
      PROVE  \/ FlushTo(hdrs, snap)[i].mut = hdrs[i].mut + Held(old, i)
             \/ FlushTo(hdrs, snap)[i].mut = MaxCount
  <2>1. i \in 1..Len(hdrs) /\ hdrs[i] \in Header /\ hdrs[i].mut \in Nat
    <3>1. i \in 1..Len(hdrs) /\ hdrs[i] \in Header
      BY <1>3 DEF Positions
    <3> QED BY <3>1 DEF Header, Counter
  <2>2. CASE i <= Len(snap)
    <3>1. FlushTo(hdrs, snap)[i].mut = SatAdd(hdrs[i].mut, snap[i].new)
      BY <2>1, <2>2 DEF FlushTo, Header
    <3> QED BY <2>2, <3>1 DEF SatAdd, Held
  <2>3. CASE ~(i <= Len(snap))
    <3>1. FlushTo(hdrs, snap)[i] = hdrs[i] /\ Held(old, i) = 0
      BY <2>1, <2>3 DEF FlushTo, Held
    <3> QED BY <2>1, <3>1
  <2> QED BY <2>2, <2>3
<1> QED BY <1>2, <1>3

LEMMA ObjectsFlushed ==
  ASSUME ObjectInv, BaseInv, ThreadsFit, UNCHANGED numEntries, NEW s \in Spaces,
         items' = FlushTo(items, mem[s].snapshots),
         mem'[s].snapshots = FlushFrom(items, mem[s].snapshots), mem'[s] \in Local,
         mem'[s].lastItem = mem[s].lastItem, mem'[s].attached = mem[s].attached,
         \A r \in Spaces : r # s => mem'[r] = mem[r]
  PROVE  ObjectInv' /\ Conserves
<1>1. /\ mem[s] \in Local /\ mem \in [Spaces -> Local] /\ items \in Seq(Header)
      /\ numEntries \in Nat /\ numEntries <= Len(items)
      /\ \A t \in Threads : Space(t) \in Spaces
  BY DEF BaseInv, DataInv, DataType, Laid, Space, Spaces, Threads, MainThreads
<1>2. ASSUME NEW i \in Positions
      PROVE  /\ Held(mem'[s], i) = 0
             /\ i <= Len(items) => \/ items'[i].mut = items[i].mut + Held(mem[s], i)
                                   \/ items'[i].mut = MaxCount
  BY <1>1, FlushMoves
<1>3. Len(mem'[s].snapshots) = Len(mem[s].snapshots)
  <2>1. mem[s].snapshots \in Seq(Entry)
    BY <1>1 DEF Local
  <2> QED BY <1>1, <2>1, FlushFromKeeps DEF EntriesKept
<1>4. \A r \in Spaces : Linked(mem'[r])
  BY <1>3 DEF ObjectInv, Linked
<1>5. \A r \in Spaces : \A i \in Positions : Held(mem'[r], i) \in {0, Held(mem[r], i)}
  BY <1>2
<1>6. \A t \in Threads : AtMap(t)' => mem'[Space(t)].attached
  BY <1>1 DEF ThreadsFit, ObjectInv
<1>7. ObjectInv'
  BY <1>4, <1>5, <1>6, ObjectStill DEF ThreadsFit
<1>8. Conserves
  <2> SUFFICES ASSUME IsFiniteSet(Spaces), BaseInv', NEW i \in 1..numEntries
               PROVE  Picks(i)' >= IF Picks(i) < MaxCount THEN Picks(i) ELSE MaxCount
    BY DEF Conserves, PicksKept
  <2>1. i \in Positions /\ i <= Len(items) /\ items[i] \in Header
    BY <1>1 DEF Positions
  <2>2. items[i].mut \in Nat /\ Held(mem[s], i) \in Nat
    BY <1>1, <2>1, HeldType DEF Header, Counter
  <2>3. \/ items'[i].mut + Held(mem'[s], i) >= items[i].mut + Held(mem[s], i)
        \/ items'[i].mut = MaxCount
    BY <1>2, <2>1, <2>2
  <2>4. numEntries' >= numEntries
    BY <1>1
  <2> HIDE DEF Held
  <2>5. \A r \in Spaces : r # s => Held(mem'[r], i) = Held(mem[r], i)
    OBVIOUS
  <2> QED BY <2>3, <2>4, <2>5, Balance
<1> QED BY <1>7, <1>8

\* An entry is added that holds no pick.
LEMMA AppendedFits ==
  ASSUME NEW old, NEW new, NEW reset \in Seq(Entry), NEW entry,
         old.snapshots \in Seq(Entry), old.lastItem \in Nat, Linked(old), old.attached,
         Len(reset) = Len(old.snapshots),
         \A i \in 1..Len(reset) : reset[i].new = old.snapshots[i].new,
         new.snapshots = Append(reset, entry), entry.new = 0,
         new.attached = old.attached, new.lastItem = old.lastItem
  PROVE  Linked(new) /\ \A i \in Positions : Held(new, i) = Held(old, i)
<1> DEFINE n == Len(reset)
           snap == new.snapshots
<1>1. n \in Nat /\ Len(snap) = n + 1 /\ snap[n + 1] = entry /\ \A i \in 1..n : snap[i] = reset[i]
  OBVIOUS
<1>2. Linked(new)
  BY <1>1 DEF Linked
<1>3. ASSUME NEW i \in Positions PROVE Held(new, i) = Held(old, i)
  <2>1. CASE i \in 1..n
    BY <1>1, <2>1 DEF Held
  <2>2. CASE i = n + 1
    BY <1>1, <2>2 DEF Held
  <2>3. CASE i > n + 1
    BY <1>1, <2>3 DEF Held, Positions
  <2> QED BY <1>1, <2>1, <2>2, <2>3 DEF Positions
<1> QED BY <1>2, <1>3

LEMMA ObjectsCall ==
  ASSUME BaseInv, ObjectInv, NEW t \in Threads, CallStep(t)
  PROVE  ObjectInv' /\ Conserves
<1> DEFINE s == Space(t)
<1>1. /\ mem \in [Spaces -> Local] /\ s \in Spaces /\ mem[s] \in Local /\ Tracees \subseteq Threads
      /\ pc \in [Threads -> Places] /\ call \in [Threads -> Calls] /\ cursor \in [Threads -> Nat]
      /\ items \in Seq(Header) /\ numEntries \in Nat /\ nPicks \in Nat /\ nPicks <= MaxPicks
  BY DEF BaseInv, DataInv, DataType, ControlInv, ControlType, Space, Spaces, Threads, MainThreads,
         ObjectInv
<1>2. UNCHANGED <<nPicks, nCrashes, nKills, nRestarts>>
  BY DEF CallStep, SyncCheck, Acquire, Attach, SyncItem, SyncIndex, SyncEnd, Release, history
<1>3. CASE SyncCheck(t)
  <2>1. /\ UNCHANGED <<items, numEntries, mem>> /\ pc[t] = "enter"
        /\ \/ call' = [call EXCEPT ![t] = None] /\ pc' = [pc EXCEPT ![t] = Return(t)]
           \/ call' = [call EXCEPT ![t] = "Sync"] /\ pc' = [pc EXCEPT ![t] = "wait"]
    BY <1>3 DEF SyncCheck, Enter, Goto, shared
  <2>2. /\ Return(t) \in {"pick", "enter", "spawn", "print", "loop"}
        /\ Return(t) = "pick" => call[t] = "GetItem"
    BY DEF Return
  <2>3. ThreadsFit
    BY <1>1, <1>2, <2>1, <2>2 DEF ThreadsFit, AtMap, Pending, None
  <2> QED BY <2>1, <2>3, ObjectsUntouched
<1>4. CASE Release(t)
  <2>1. /\ UNCHANGED <<items, numEntries, mem>> /\ pc[t] = "unlock"
        /\ pc' = [pc EXCEPT ![t] = Return(t)]
        /\ \E l \in {"Sync", None} : call' = [call EXCEPT ![t] = l]
    BY <1>4 DEF Release, Goto, shared
  <2>2. /\ Return(t) \in {"pick", "enter", "spawn", "print", "loop"}
        /\ Return(t) = "pick" => call[t] = "GetItem"
    BY DEF Return
  <2>3. ThreadsFit
    BY <1>1, <1>2, <2>1, <2>2 DEF ThreadsFit, AtMap, Pending, None
  <2> QED BY <2>1, <2>3, ObjectsUntouched
<1>5. CASE Acquire(t) /\ call[t] \in {"SyncCounters", "IncUnwanted"}
  <2>1. UNCHANGED <<items, numEntries, mem, call>> /\ pc' = [pc EXCEPT ![t] = "held"]
    BY <1>5 DEF Acquire, Goto, shared
  <2>2. ThreadsFit
    BY <1>1, <1>2, <1>5, <2>1 DEF ThreadsFit, AtMap, Pending
  <2> QED BY <2>1, <2>2, ObjectsUntouched
<1>6. CASE Acquire(t) /\ call[t] \notin {"SyncCounters", "IncUnwanted"}
  <2>1. /\ UNCHANGED <<items, numEntries, call>> /\ pc[t] = "wait"
        /\ \E w \in {"attach", "sync"} : pc' = [pc EXCEPT ![t] = w]
        /\ mem'[s].attached /\ mem'[s].lastItem = mem[s].lastItem
        /\ \A r \in Spaces : r # s => mem'[r] = mem[r]
        /\ \/ mem'[s].snapshots = mem[s].snapshots
           \/ mem'[s].snapshots = <<>> /\ ~mem[s].attached
    <3>1. UNCHANGED <<items, numEntries, call>> /\ pc[t] = "wait"
      BY <1>6 DEF Acquire, shared
    <3>2. CASE mem[s].attached
      <4>1. /\ mem' = [mem EXCEPT ![s] = [mem[s] EXCEPT !.lastSeq = updatedSeq]]
            /\ pc' = [pc EXCEPT ![t] = "sync"]
        BY <1>6, <3>2 DEF Acquire, BeginMerge, Goto, Object
      <4> QED BY <1>1, <3>1, <3>2, <4>1 DEF Local
    <3>3. CASE ~mem[s].attached
      <4>1. /\ pc' = [pc EXCEPT ![t] = "attach"]
            /\ mem' = [mem EXCEPT ![s] = [mem[s] EXCEPT !.attached = TRUE, !.snapshots = <<>>,
                                                        !.nextIndex = 0, !.nextItem = 0]]
        BY <1>1, <1>6, <3>3 DEF Acquire, Goto, Object, Local
      <4> QED BY <1>1, <3>1, <3>3, <4>1 DEF Local
    <3> QED BY <3>2, <3>3
  <2>2. Linked(mem[s])
    BY <1>1 DEF ObjectInv
  <2>3. Linked(mem'[s]) /\ \A i \in Positions : Held(mem'[s], i) = Held(mem[s], i)
    <3>1. CASE mem'[s].snapshots = mem[s].snapshots
      BY <2>1, <2>2, <3>1 DEF Linked, Held
    <3>2. CASE mem'[s].snapshots = <<>> /\ ~mem[s].attached
      <4>1. Len(mem[s].snapshots) = 0 /\ mem[s].lastItem <= 0
        BY <2>2, <3>2 DEF Linked
      <4>2. Linked(mem'[s])
        BY <2>1, <3>2, <4>1 DEF Linked
      <4> QED BY <3>2, <4>1, <4>2 DEF Held, Positions
    <3> QED BY <2>1, <3>1, <3>2
  <2>4. HeldSame /\ MutSame /\ numEntries' >= numEntries
    BY <1>1, <2>1, <2>3 DEF HeldSame, MutSame
  <2>5. \A r \in Spaces : Linked(mem'[r])
    BY <2>1, <2>3 DEF ObjectInv
  <2>6. \A u \in Threads : AtMap(u)' => mem'[Space(u)].attached
    <3>1. \A u \in Threads : Space(u) \in Spaces
      BY DEF Space, Spaces, Threads, MainThreads
    <3>2. \A u \in Threads : u # t => (AtMap(u)' => AtMap(u))
      BY <1>1, <2>1 DEF AtMap
    <3> QED BY <2>1, <3>1, <3>2 DEF ObjectInv
  <2>7. \A c \in Tracees : (pc'[c] = "dead" => pc[c] = "dead") /\ (Pending(c)' => Pending(c))
    BY <1>1, <2>1 DEF Pending
  <2>8. \A r \in Spaces : \A i \in Positions : Held(mem'[r], i) \in {0, Held(mem[r], i)}
    BY <2>4 DEF HeldSame
  <2>9. ObjectInv'
    BY <1>1, <1>2, <2>5, <2>6, <2>7, <2>8, ObjectStill
  <2> QED BY <2>4, <2>9, PicksStill
<1>9. CASE Attach(t) \/ SyncIndex(t)
  <2>1. /\ UNCHANGED <<items, numEntries, call>> /\ pc[t] \in {"attach", "sync"}
        /\ \E w \in {"sync", "pointer"} : pc' = [pc EXCEPT ![t] = w]
    BY <1>9 DEF Attach, SyncIndex, BeginMerge, Goto, shared
  <2>2. /\ mem'[s].snapshots = mem[s].snapshots
        /\ mem'[s].attached = mem[s].attached /\ mem'[s].lastItem = mem[s].lastItem
        /\ \A r \in Spaces : r # s => mem'[r] = mem[r]
    <3>1. \/ \E o \in {[mem[s] EXCEPT !.first = TRUE]} :
                mem' = [mem EXCEPT ![s] = [o EXCEPT !.lastSeq = updatedSeq]]
          \/ mem' = [mem EXCEPT ![s] = [mem[s] EXCEPT !.nextIndex = cursor[t]]]
      BY <1>1, <1>9 DEF Attach, SyncIndex, BeginMerge, Object, Local
    <3> QED BY <1>1, <3>1 DEF Local
  <2>6. \A r \in Spaces : mem'[r].snapshots = mem[r].snapshots
    BY <2>2
  <2>7. HeldSame
    BY <2>6 DEF HeldSame, Held
  <2>3. HeldSame /\ MutSame /\ numEntries' >= numEntries
    BY <1>1, <2>1, <2>7 DEF MutSame
  <2>4. \A r \in Spaces : Linked(mem'[r]) /\ (mem[r].attached => mem'[r].attached)
    BY <2>2 DEF ObjectInv, Linked
  <2>5. ThreadsFit
    BY <1>1, <1>2, <2>1 DEF ThreadsFit, AtMap, Pending
  <2> QED BY <2>3, <2>4, <2>5, ObjectsSame
<1>7. CASE SyncItem(t)
  <2> DEFINE n == cursor[t] + 1
             entry == Mirror(items[n], n)
  <2>1. UNCHANGED <<items, numEntries, pc, call>> /\ pc[t] = "sync"
    BY <1>7 DEF SyncItem, shared
  <2>2. /\ mem'[s].snapshots = Append(mem[s].snapshots, entry)
        /\ mem'[s].attached = mem[s].attached /\ mem'[s].lastItem = mem[s].lastItem
        /\ \A r \in Spaces : r # s => mem'[r] = mem[r]
    <3>0. PlainSyncItem(t)
      BY <1>7, SyncItemPlain
    <3>1. \E seen : mem' = [mem EXCEPT ![s] =
            [mem[s] EXCEPT !.snapshots = Append(mem[s].snapshots, Mirror(items[n], n)),
                           !.seenKeys = seen]]
      BY <1>1, <3>0 DEF PlainSyncItem, Local
    <3> QED BY <1>1, <3>1 DEF Local
  <2>3. mem[s].snapshots \in Seq(Entry) /\ entry.new = 0 /\ mem[s].lastItem \in Nat
    BY <1>1 DEF Mirror, Local
  <2> HIDE DEF entry
  <2>4. mem[s].attached
    BY <1>1, <2>1 DEF ObjectInv, AtMap
  <2>5. Linked(mem'[s]) /\ \A i \in Positions : Held(mem'[s], i) = Held(mem[s], i)
    <3>1. Linked(mem[s])
      BY <1>1 DEF ObjectInv
    <3> DEFINE old == mem[s]
               new == mem'[s]
               snap == old.snapshots
    <3>2. /\ snap \in Seq(Entry) /\ old.lastItem \in Nat /\ Linked(old) /\ old.attached
          /\ new.snapshots = Append(snap, entry) /\ entry.new = 0
          /\ new.attached = old.attached /\ new.lastItem = old.lastItem
      BY <2>2, <2>3, <2>4, <3>1
    <3> HIDE DEF new
    <3>3. Linked(new) /\ \A i \in Positions : Held(new, i) = Held(old, i)
      BY <3>2, AppendedFits
    <3> QED BY <3>3 DEF new
  <2>6. HeldSame /\ MutSame /\ numEntries' >= numEntries
    BY <1>1, <2>1, <2>2, <2>5 DEF HeldSame, MutSame
  <2>7. \A r \in Spaces : Linked(mem'[r]) /\ (mem[r].attached => mem'[r].attached)
    BY <2>2, <2>5 DEF ObjectInv
  <2>8. ThreadsFit
    BY <1>1, <1>2, <2>1 DEF ThreadsFit, AtMap, Pending
  <2> QED BY <2>6, <2>7, <2>8, ObjectsSame
<1>8. CASE SyncEnd(t)
  <2>1. /\ UNCHANGED <<numEntries, call>> /\ pc[t] = "pointer"
        /\ pc' = [pc EXCEPT ![t] = IF call[t] = "Add" THEN "held" ELSE "unlock"]
        /\ items' = FlushTo(items, mem[s].snapshots)
    BY <1>8 DEF SyncEnd, Goto, Object
  <2>2. /\ mem'[s].snapshots = FlushFrom(items, mem[s].snapshots)
        /\ mem'[s].attached = mem[s].attached /\ mem'[s].lastItem = mem[s].lastItem
        /\ \A r \in Spaces : r # s => mem'[r] = mem[r]
    <3>1. mem' = [mem EXCEPT ![s] = [mem[s] EXCEPT !.nextItem = curr[t],
                                       !.snapshots = FlushFrom(items, mem[s].snapshots)]]
      BY <1>1, <1>8 DEF SyncEnd, Local
    <3> QED BY <1>1, <3>1 DEF Local
  <2>3. mem'[s] \in Local
    <3>1. DataType'
      BY DataCall DEF BaseInv, DataInv, Kept
    <3> QED BY <1>1, <3>1 DEF DataType
  <2>4. ThreadsFit
    BY <1>1, <1>2, <2>1 DEF ThreadsFit, AtMap, Pending
  <2> QED BY <1>1, <2>1, <2>2, <2>3, <2>4, ObjectsFlushed
<1> QED BY <1>3, <1>4, <1>5, <1>6, <1>7, <1>8, <1>9, CallStep(t) DEF CallStep

\* The unsigned increment of a counter.
LEMMA Increment ==
  ASSUME NEW k \in Counter
  PROVE  (k + 1) % (MaxCount + 1) = IF k = MaxCount THEN 0 ELSE k + 1
<1>1. k \in Nat /\ k <= MaxCount /\ MaxCount \in Nat
  BY BoundsAssumption DEF Counter
<1>2. \A m \in Nat : \A n \in Nat : n < m => n % m = n
  OBVIOUS
<1>3. \A m \in Nat : m > 0 => m % m = 0
  OBVIOUS
<1> QED BY <1>1, <1>2, <1>3

LEMMA ObjectsPick ==
  ASSUME BaseInv, ObjectInv, NEW c \in Tracees, PickItem(c)
  PROVE  ObjectInv' /\ Conserves
<1>1. /\ mem \in [Spaces -> Local] /\ c \in Spaces /\ mem[c] \in Local /\ Tracees \subseteq Threads
      /\ pc \in [Threads -> Places] /\ call \in [Threads -> Calls] /\ c \in Threads
      /\ nPicks \in Nat /\ nPicks <= MaxPicks /\ MaxPicks \in Nat /\ MaxCount \in Nat
      /\ items \in Seq(Header) /\ numEntries \in Nat /\ numEntries <= Len(items) /\ Main \in Spaces
      /\ Main # c /\ Tracees \subseteq Spaces
  BY ActorsAssumption, BoundsAssumption DEF BaseInv, DataInv, DataType, Laid,
     ControlInv, ControlType, Spaces, Threads, MainThreads, ObjectInv
<1>2. PICK p \in 1..Len(mem[c].snapshots) :
        mem' = [mem EXCEPT ![c].lastItem = p,
                           ![c].snapshots[p].new = (@ + 1) % (MaxCount + 1)]
  BY DEF PickItem
<1> DEFINE snap == mem[c].snapshots
           n == (snap[p].new + 1) % (MaxCount + 1)
           picked == [snap EXCEPT ![p] = [snap[p] EXCEPT !.new = n]]
<1>3. snap \in Seq(Entry) /\ p \in 1..Len(snap) /\ snap[p] \in Entry /\ p \in Positions
  BY <1>1, <1>2 DEF Local, Positions
<1>4. mem' = [mem EXCEPT ![c] = [mem[c] EXCEPT !.lastItem = p, !.snapshots = picked]]
  BY <1>1, <1>2, <1>3 DEF Local, Entry
<1>5. /\ UNCHANGED <<items, numEntries, nPicks>> /\ pc[c] = "pick"
      /\ pc' = [pc EXCEPT ![c] = "target"] /\ call' = [call EXCEPT ![c] = None]
  BY DEF PickItem, Enter, Goto, shared, history
<1>6. /\ mem'[c].lastItem = p /\ mem'[c].snapshots = picked /\ mem'[c].attached = mem[c].attached
      /\ \A r \in Spaces : r # c => mem'[r] = mem[r]
  BY <1>1, <1>4 DEF Local
<1>7. /\ Len(picked) = Len(snap) /\ picked[p].new = n
      /\ \A i \in 1..Len(snap) : i # p => picked[i] = snap[i]
  BY <1>3 DEF Entry
<1>8. /\ Held(mem[c], p) = snap[p].new /\ Held(mem'[c], p) = n
      /\ \A i \in Positions : i # p => Held(mem'[c], i) = Held(mem[c], i)
  <2>1. Len(snap) \in Nat /\ \A i \in Positions : i <= Len(snap) => i \in 1..Len(snap)
    BY <1>3 DEF Positions
  <2> HIDE DEF picked, n
  <2> QED BY <1>3, <1>6, <1>7, <2>1 DEF Held
<1>9. n = IF snap[p].new = MaxCount THEN 0 ELSE snap[p].new + 1
  BY <1>3, Increment DEF Entry
<1>10. Held(mem[c], p) \in Nat /\ \A i \in Positions : Held(mem[c], i) < nPicks
  BY <1>1, <1>3, <1>5, HeldType DEF ObjectInv, Pending
<1> HIDE DEF snap, n, picked
<1>11. Linked(mem'[c])
  <2>1. Linked(mem[c]) /\ Len(mem[c].snapshots) # 0 /\ p <= Len(picked)
    BY <1>1, <1>3, <1>7 DEF ObjectInv, snap
  <2> QED BY <1>6, <1>7, <2>1 DEF Linked, snap
<1>12. \A s \in Spaces : Linked(mem'[s])
  BY <1>6, <1>11 DEF ObjectInv
<1>13. \A t \in Threads : AtMap(t)' => mem'[Space(t)].attached
  <2>1. \A t \in Threads : AtMap(t)' => AtMap(t) /\ Space(t) \in Spaces
    BY <1>1, <1>5 DEF AtMap, Space, Spaces, Threads, MainThreads
  <2> QED BY <1>6, <2>1 DEF ObjectInv
<1>14. ASSUME NEW d \in Tracees, NEW i \in Positions
       PROVE  /\ pc'[d] = "dead" => Held(mem'[d], i) = 0
              /\ Held(mem'[d], i) <= nPicks'
              /\ Pending(d)' => Held(mem'[d], i) < nPicks'
  <2>1. CASE d = c
    <3>1. pc'[c] = "target" /\ call'[c] = None
      BY <1>1, <1>5
    <3>2. ~Pending(c)' /\ pc'[c] # "dead"
      BY <3>1 DEF Pending, None
    <3>3. Held(mem'[c], i) <= nPicks
      <4>1. CASE i = p
        BY <1>1, <1>8, <1>9, <1>10, <4>1
      <4>2. CASE i # p
        <5>1. Held(mem[c], i) \in Nat
          BY <1>1, HeldType
        <5> QED BY <1>1, <1>8, <1>10, <4>2, <5>1
      <4> QED BY <4>1, <4>2
    <3> QED BY <1>5, <2>1, <3>2, <3>3
  <2>2. CASE d # c
    <3>1. pc'[d] = pc[d] /\ call'[d] = call[d] /\ mem'[d] = mem[d]
      BY <1>1, <1>5, <1>6, <2>2
    <3>2. Pending(d)' <=> Pending(d)
      BY <3>1 DEF Pending
    <3> QED BY <1>5, <3>1, <3>2 DEF ObjectInv
  <2> QED BY <2>1, <2>2
<1>15. ObjectInv'
  <2>1. \A t \in Threads : Space(t)' = Space(t)
    BY DEF Space
  <2>2. \A i \in Positions : Held(mem'[Main], i) = 0
    BY <1>1, <1>6 DEF ObjectInv
  <2> HIDE DEF Held, Linked
  <2> QED BY <1>1, <1>5, <1>12, <1>13, <1>14, <2>1, <2>2 DEF ObjectInv
<1>16. Conserves
  <2> SUFFICES ASSUME IsFiniteSet(Spaces), NoneAtLimit, BaseInv', NEW i \in 1..numEntries
               PROVE  Picks(i)' >= IF Picks(i) < MaxCount THEN Picks(i) ELSE MaxCount
    BY DEF Conserves, PicksKept
  <2>1. i \in Positions /\ items[i] \in Header /\ numEntries' >= numEntries
    BY <1>1, <1>5 DEF Positions
  <2>2. items[i].mut \in Nat /\ Held(mem[c], i) \in Nat
    <3>1. items[i].mut \in Nat
      BY <2>1 DEF Header, Counter
    <3> QED BY <1>1, <2>1, <3>1, HeldType
  <2>3. snap[p].new # MaxCount
    <3>1. p \in 1..Len(mem[c].snapshots) /\ pc[c] = "pick"
      BY <1>3, <1>5 DEF snap
    <3>2. mem[c].snapshots[p].new < MaxCount
      BY <3>1 DEF NoneAtLimit
    <3>3. snap[p].new < MaxCount
      BY <3>2 DEF snap
    <3>4. snap[p].new \in Nat
      BY <1>1, <1>3 DEF Entry, Counter
    <3> QED BY <1>1, <3>3, <3>4
  <2>4. items'[i].mut + Held(mem'[c], i) >= items[i].mut + Held(mem[c], i)
    <3>1. CASE i = p
      <4>1. Held(mem'[c], i) = Held(mem[c], i) + 1
        BY <1>8, <1>9, <2>3, <3>1
      <4> QED BY <1>5, <2>2, <4>1
    <3>2. CASE i # p
      <4>1. Held(mem'[c], i) = Held(mem[c], i)
        BY <1>8, <2>1, <3>2
      <4> QED BY <1>5, <2>2, <4>1
    <3> QED BY <3>1, <3>2
  <2>5. \A r \in Spaces : r # c => Held(mem'[r], i) = Held(mem[r], i)
    BY <1>6
  <2> QED BY <1>1, <2>1, <2>4, <2>5, Balance
<1> QED BY <1>15, <1>16

LEMMA ObjectsAddWrite ==
  ASSUME BaseInv, ObjectInv, NEW c \in Tracees, AddWrite(c)
  PROVE  ObjectInv' /\ Conserves
<1> DEFINE snap == mem[c].snapshots
           p == IF used[c] THEN mem[c].lastItem ELSE 0
           entry == [index |-> Len(snap) + 1, key |-> key[c], parent |-> p,
                     mut |-> 0, new |-> 0]
           header == [key |-> key[c], parent |-> p, mut |-> 0, direct |-> 0, desc |-> 0,
                      anc |-> AncestorDepth(snap, p)]
           base == SubSeq(items, 1, numEntries)
           counted == CountOffspring(base, snap, p)
           reset == ResetParent(snap, p)
<1>1. /\ c \in Threads /\ c \in Spaces /\ Space(c) = c /\ mem[c] \in Local /\ mem \in [Spaces -> Local]
      /\ pc \in [Threads -> Places] /\ snap \in Seq(Entry) /\ p \in Nat /\ mem[c].lastItem \in Nat
      /\ items \in Seq(Header) /\ numEntries \in Nat /\ Tracees \subseteq Threads
      /\ numEntries <= Len(items) /\ nPicks \in Nat /\ nPicks <= MaxPicks
  BY DEF BaseInv, DataInv, DataType, Laid, ControlInv, ControlType, Space, Spaces,
         Threads, MainThreads, Local, ObjectInv
<1>2. /\ mem' = [mem EXCEPT ![c].snapshots = Append(reset, entry)]
      /\ items' = Append(counted, header)
      /\ pc' = [pc EXCEPT ![c] = "publish"] /\ pc[c] = "held" /\ call[c] = "Add"
      /\ UNCHANGED <<numEntries, call, nPicks>>
  BY <1>1, AddWritePlain DEF PlainAddWrite, Goto, Local, history
<1>3. /\ base \in Seq(Header) /\ Len(base) = numEntries
      /\ \A i \in 1..numEntries : base[i] = items[i]
  BY <1>1
<1> HIDE DEF p, base
<1>4. /\ counted \in Seq(Header) /\ Len(counted) = numEntries
      /\ \A i \in 1..numEntries : counted[i].mut = base[i].mut
  <2>1. counted \in Seq(Header) /\ Len(counted) = numEntries
    BY <1>1, <1>3, CountOffspringType
  <2>2. ASSUME NEW i \in 1..numEntries PROVE counted[i].mut = base[i].mut
    <3> DEFINE d == base[i].direct + (IF i = p THEN 1 ELSE 0)
               e == base[i].desc + (IF i \in Ancestors(snap, p) THEN 1 ELSE 0)
    <3>1. base[i] \in Header
      BY <1>3
    <3>2. counted[i] = [base[i] EXCEPT !.direct = d, !.desc = e]
      BY <1>3 DEF CountOffspring
    <3> HIDE DEF d, e, counted
    <3> QED BY <3>1, <3>2 DEF Header
  <2> QED BY <2>1, <2>2
<1>5. /\ reset \in Seq(Entry) /\ Len(reset) = Len(snap)
      /\ \A i \in 1..Len(reset) : reset[i].new = snap[i].new
  <2>1. reset \in Seq(Entry) /\ Len(reset) = Len(snap)
    BY <1>1, ResetParentKeeps, ResetParentType DEF EntriesKept
  <2>2. ASSUME NEW i \in 1..Len(snap) PROVE reset[i].new = snap[i].new
    <3>1. snap[i] \in Entry
      BY <1>1
    <3> QED BY <3>1 DEF ResetParent, Entry
  <2> QED BY <2>1, <2>2
<1>6. entry.new = 0
  OBVIOUS
<1> HIDE DEF counted, reset, entry, header
<1>7. /\ mem'[c].snapshots = Append(reset, entry) /\ mem'[c].attached = mem[c].attached
      /\ mem'[c].lastItem = mem[c].lastItem
      /\ \A r \in Spaces : r # c => mem'[r] = mem[r]
  BY <1>1, <1>2 DEF Local
<1>8. Linked(mem[c]) /\ mem[c].attached
  BY <1>1, <1>2 DEF ObjectInv, AtMap
<1>9. Linked(mem'[c]) /\ \A i \in Positions : Held(mem'[c], i) = Held(mem[c], i)
  <2> DEFINE old == mem[c]
             new == mem'[c]
  <2>1. /\ old.snapshots \in Seq(Entry) /\ old.lastItem \in Nat /\ Linked(old) /\ old.attached
        /\ Len(reset) = Len(old.snapshots) /\ reset \in Seq(Entry)
        /\ \A i \in 1..Len(reset) : reset[i].new = old.snapshots[i].new
        /\ new.snapshots = Append(reset, entry) /\ entry.new = 0
        /\ new.attached = old.attached /\ new.lastItem = old.lastItem
    BY <1>1, <1>5, <1>6, <1>7, <1>8
  <2> HIDE DEF new, old, snap
  <2>2. Linked(new) /\ \A i \in Positions : Held(new, i) = Held(old, i)
    BY <2>1, AppendedFits
  <2> QED BY <2>2 DEF new, old
<1>10. HeldSame
  BY <1>7, <1>9 DEF HeldSame
<1>11. MutSame /\ numEntries' >= numEntries
  <2>1. \A i \in 1..numEntries : items'[i] = counted[i]
    BY <1>1, <1>2, <1>4
  <2> QED BY <1>1, <1>2, <1>3, <1>4, <2>1 DEF MutSame
<1>12. \A r \in Spaces : Linked(mem'[r]) /\ (mem[r].attached => mem'[r].attached)
  BY <1>7, <1>9 DEF ObjectInv
<1>13. ThreadsFit
  BY <1>1, <1>2 DEF ThreadsFit, AtMap, Pending
<1> QED BY <1>10, <1>11, <1>12, <1>13, ObjectsSame

LEMMA ObjectsTracee ==
  ASSUME BaseInv, ObjectInv, NEW c \in Tracees, TraceeStep(c)
  PROVE  ObjectInv' /\ Conserves
<1>0. /\ c \in Threads /\ c \in Spaces /\ mem[c] \in Local /\ mem \in [Spaces -> Local]
      /\ pc \in [Threads -> Places] /\ call \in [Threads -> Calls] /\ Tracees \subseteq Threads
      /\ items \in Seq(Header) /\ nPicks \in Nat /\ nPicks <= MaxPicks /\ MaxPicks \in Nat
      /\ numEntries \in Nat
  BY BoundsAssumption DEF BaseInv, DataInv, DataType, ControlInv, ControlType, Spaces, Threads,
     MainThreads, ObjectInv
<1>1. CASE CreateInput(c) \/ SyncCounters(c)
  <2>1. /\ UNCHANGED <<items, numEntries, mem, nPicks>> /\ pc[c] = "loop"
        /\ \E w \in {"target", "wait", "enter"}, l \in {None, "Sync", "SyncCounters"} :
             pc' = [pc EXCEPT ![c] = w] /\ call' = [call EXCEPT ![c] = l]
    BY <1>1 DEF CreateInput, SyncCounters, Enter, Goto, shared, history
  <2>2. ThreadsFit
    BY <1>0, <2>1 DEF ThreadsFit, AtMap, Pending, None
  <2> QED BY <2>1, <2>2, ObjectsUntouched
<1>2. CASE GetItem(c)
  <2>1. /\ UNCHANGED <<items, numEntries, mem>> /\ pc[c] = "loop"
        /\ nPicks' = nPicks + 1 /\ nPicks < MaxPicks
        /\ \E w \in {"pick", "wait"} :
             pc' = [pc EXCEPT ![c] = w] /\ call' = [call EXCEPT ![c] = "GetItem"]
    BY <1>2 DEF GetItem, Enter, Goto, shared
  <2>2. ThreadsFit
    BY <1>0, <2>1 DEF ThreadsFit, AtMap, Pending
  <2> QED BY <2>1, <2>2, ObjectsUntouched
<1>3. CASE NothingNew(c) \/ AddSeen(c)
  <2>1. /\ UNCHANGED <<items, numEntries, mem, nPicks, call>> /\ pc[c] \in {"target", "held"}
        /\ \E w \in {"loop", "unlock"} : pc' = [pc EXCEPT ![c] = w]
    BY <1>3 DEF NothingNew, AddSeen, Goto, shared, history
  <2>2. ThreadsFit
    BY <1>0, <2>1 DEF ThreadsFit, AtMap, Pending
  <2> QED BY <2>1, <2>2, ObjectsUntouched
<1>4. ASSUME NEW k \in Keys, FoundCoverage(c, k) PROVE ObjectInv' /\ Conserves
  <2>1. /\ UNCHANGED <<items, numEntries, mem, nPicks>> /\ pc[c] = "target"
        /\ \E w \in {"loop", "wait"} : pc' = [pc EXCEPT ![c] = w]
        /\ call' = call \/ call' = [call EXCEPT ![c] = "Add"]
    BY <1>4 DEF FoundCoverage, Enter, Goto, shared, history
  <2>2. ThreadsFit
    BY <1>0, <2>1 DEF ThreadsFit, AtMap, Pending
  <2> QED BY <2>1, <2>2, ObjectsUntouched
<1>5. CASE AddPublish(c)
  <2>1. /\ UNCHANGED <<items, nPicks, call>> /\ pc[c] = "publish" /\ numEntries' = numEntries + 1
        /\ pc' = [pc EXCEPT ![c] = "unlock"]
    BY <1>5 DEF AddPublish, Goto, history
  <2>2. /\ mem'[c].snapshots = mem[c].snapshots /\ mem'[c].attached = mem[c].attached
        /\ mem'[c].lastItem = mem[c].lastItem
        /\ \A r \in Spaces : r # c => mem'[r] = mem[r]
    BY <1>0, <1>5 DEF AddPublish, Local
  <2>3. HeldSame /\ MutSame /\ numEntries' >= numEntries
    BY <1>0, <2>1, <2>2 DEF HeldSame, MutSame, Held
  <2>4. \A r \in Spaces : Linked(mem'[r]) /\ (mem[r].attached => mem'[r].attached)
    BY <2>2 DEF ObjectInv, Linked
  <2>5. ThreadsFit
    BY <1>0, <2>1 DEF ThreadsFit, AtMap, Pending
  <2> QED BY <2>3, <2>4, <2>5, ObjectsSame
<1>6. CASE CountersHeld(c)
  <2>1. /\ UNCHANGED <<numEntries, nPicks, call>> /\ pc[c] = "held"
        /\ pc' = [pc EXCEPT ![c] = "unlock"] /\ items' = FlushTo(items, mem[c].snapshots)
    BY <1>6 DEF CountersHeld, Goto, history
  <2>2. /\ mem'[c].snapshots = FlushFrom(items, mem[c].snapshots)
        /\ mem'[c].attached = mem[c].attached /\ mem'[c].lastItem = mem[c].lastItem
        /\ \A r \in Spaces : r # c => mem'[r] = mem[r]
    BY <1>0, <1>6 DEF CountersHeld, Local
  <2>3. mem'[c] \in Local
    <3>1. DataType'
      BY DataTracee DEF BaseInv, DataInv, Kept
    <3> QED BY <1>0, <3>1 DEF DataType
  <2>4. ThreadsFit
    BY <1>0, <2>1 DEF ThreadsFit, AtMap, Pending
  <2> QED BY <1>0, <2>1, <2>2, <2>3, <2>4, ObjectsFlushed
<1>7. CASE CountersNull(c)
  <2>1. UNCHANGED <<items, numEntries, mem, call, nPicks>> /\ pc' = [pc EXCEPT ![c] = "crashed"]
    BY <1>7 DEF CountersNull, Goto, shared
  <2>2. ThreadsFit
    BY <1>0, <2>1 DEF ThreadsFit, AtMap, Pending
  <2> QED BY <2>1, <2>2, ObjectsUntouched
<1> QED BY <1>0, <1>1, <1>2, <1>3, <1>4, <1>5, <1>6, <1>7, ObjectsCall, ObjectsPick, ObjectsAddWrite,
           TraceeStep(c) DEF TraceeStep

\* A slot is emptied, or filled from the main process.
LEMMA ObjectsSlot ==
  ASSUME BaseInv, ObjectInv, NEW m \in Threads, m \notin Tracees, NEW c \in Tracees,
         UNCHANGED <<items, numEntries, nPicks>>,
         \A s \in Spaces : s # c => mem'[s] = mem[s],
         mem'[c] = mem[Main] \/ mem'[c] = Blank,
         \E v \in {"enter", "dead"}, w \in {"watch", "enter", "wait", "spawn"} :
           pc' = [pc EXCEPT ![c] = v, ![m] = w],
         \E k \in {"Sync", None}, l \in Calls : call' = [call EXCEPT ![c] = k, ![m] = l]
  PROVE  ObjectInv' /\ ((\A i \in Positions : Held(mem[c], i) = 0) => Conserves)
<1>1. /\ c \in Threads /\ c \in Spaces /\ Main \in Spaces /\ Main \notin Tracees /\ c # m
      /\ pc \in [Threads -> Places] /\ call \in [Threads -> Calls] /\ Tracees \subseteq Threads
      /\ Tracees \subseteq Spaces /\ mem \in [Spaces -> Local] /\ numEntries \in Nat
      /\ nPicks \in Nat /\ nPicks <= MaxPicks
      /\ \A t \in Threads : t # c => Space(t) # c /\ Space(t) \in Spaces
  BY ActorsAssumption DEF Spaces, Threads, MainThreads, Space, BaseInv, ControlInv, ControlType,
     DataInv, DataType, ObjectInv
<1>2. Linked(mem'[c]) /\ \A i \in Positions : Held(mem'[c], i) = 0
  <2>1. Linked(Blank) /\ \A i \in Positions : Held(Blank, i) = 0
    BY DEF Blank, Linked, Held, Positions
  <2>2. Linked(mem[Main]) /\ \A i \in Positions : Held(mem[Main], i) = 0
    BY <1>1 DEF ObjectInv
  <2> HIDE DEF Held, Linked
  <2> QED BY <2>1, <2>2
<1>3. /\ pc'[c] \notin {"attach", "sync", "pointer", "held", "pick"} /\ call'[c] # "GetItem"
      /\ \A t \in Threads : t # c => \/ pc'[t] = pc[t] /\ call'[t] = call[t]
                                     \/ pc'[t] \notin {"attach", "sync", "pointer", "held"}
      /\ \A d \in Tracees : d # c => pc'[d] = pc[d] /\ call'[d] = call[d]
  BY <1>1 DEF None
<1>4. \A t \in Threads : AtMap(t)' => mem'[Space(t)].attached
  <2>1. ASSUME NEW t \in Threads, AtMap(t)' PROVE mem'[Space(t)].attached
    <3>1. t # c /\ AtMap(t)
      BY <1>3, <2>1 DEF AtMap
    <3> QED BY <1>1, <3>1 DEF ObjectInv
  <2> QED BY <2>1
<1>5. ASSUME NEW d \in Tracees
      PROVE  /\ pc'[d] = "dead" => pc[d] = "dead" \/ \A i \in Positions : Held(mem'[d], i) = 0
             /\ Pending(d)' => Pending(d)
  BY <1>2, <1>3 DEF Pending
<1>6. \A s \in Spaces : Linked(mem'[s]) /\ \A i \in Positions : Held(mem'[s], i) \in {0, Held(mem[s], i)}
  BY <1>2 DEF ObjectInv
<1>7. ObjectInv'
  BY <1>1, <1>4, <1>5, <1>6, ObjectStill
<1>8. ASSUME \A i \in Positions : Held(mem[c], i) = 0 PROVE Conserves
  <2>1. HeldSame /\ MutSame /\ numEntries' >= numEntries
    BY <1>1, <1>2, <1>8 DEF HeldSame, MutSame
  <2> QED BY <2>1, PicksStill
<1> QED BY <1>7, <1>8

\* The main process has read a null pointer.
LEMMA ObjectsSegv ==
  ASSUME BaseInv, ObjectInv, Segv, UNCHANGED <<items, numEntries, mem, call, nPicks>>
  PROVE  ObjectInv' /\ Conserves
<1>1. /\ pc \in [Threads -> Places] /\ MainThreads \cap Tracees = {} /\ Tracees \subseteq Threads
      /\ nPicks \in Nat /\ nPicks <= MaxPicks
  BY ActorsAssumption DEF BaseInv, ControlInv, ControlType, Threads, MainThreads, ObjectInv
<1>2. pc' = [t \in Threads |-> IF t \in MainThreads THEN "segv" ELSE pc[t]]
  BY DEF Segv
<1>3. ThreadsFit
  BY <1>1, <1>2 DEF ThreadsFit, AtMap, Pending
<1> QED BY <1>3, ObjectsUntouched

LEMMA ObjectsMonitor ==
  ASSUME BaseInv, ObjectInv, NEW m \in Monitors, MonitorStep(m)
  PROVE  ObjectInv' /\ Conserves
<1>0. /\ m \in Threads /\ m \notin Tracees /\ Tracees \subseteq Threads /\ Tracees \subseteq Spaces
      /\ Main \in Spaces /\ Main \notin Tracees /\ mem[Main] \in Local
      /\ pc \in [Threads -> Places] /\ mem \in [Spaces -> Local]
      /\ call \in [Threads -> Calls] /\ nPicks \in Nat /\ nPicks <= MaxPicks
  BY ActorsAssumption DEF Threads, MainThreads, Spaces, BaseInv, ControlInv, ControlType, DataInv,
     DataType, ObjectInv
<1>1. ASSUME NEW c \in Tracees, Fork(m, c) PROVE ObjectInv' /\ Conserves
  <2>1. /\ UNCHANGED <<items, numEntries, nPicks>> /\ mem' = [mem EXCEPT ![c] = mem[Main]]
        /\ pc[c] = "dead"
        /\ pc' = [pc EXCEPT ![c] = "enter", ![m] = "watch"]
        /\ call' = [call EXCEPT ![c] = "Sync"]
    BY <1>0, <1>1 DEF Fork, shared
  <2>2. \A i \in Positions : Held(mem[c], i) = 0
    BY <2>1 DEF ObjectInv
  <2>3. (mem'[c] = mem[Main] \/ mem'[c] = Blank) /\ \A s \in Spaces : s # c => mem'[s] = mem[s]
    BY <1>0, <2>1
  <2>4. call' = [call EXCEPT ![c] = "Sync", ![m] = call[m]] /\ call[m] \in Calls
    BY <1>0, <2>1
  <2>5. /\ UNCHANGED <<items, numEntries, nPicks>> /\ m \in Threads /\ m \notin Tracees
        /\ \E v \in {"enter", "dead"}, w \in {"watch", "enter", "wait", "spawn"} :
             pc' = [pc EXCEPT ![c] = v, ![m] = w]
    BY <1>0, <2>1
  <2>6. \E k \in {"Sync", None}, l \in Calls : call' = [call EXCEPT ![c] = k, ![m] = l]
    BY <2>4
  <2> QED BY <2>2, <2>3, <2>5, <2>6, ObjectsSlot
<1>2. ASSUME NEW c \in Tracees, HandleException(m, c) PROVE ObjectInv' /\ Conserves
  <2>1. /\ UNCHANGED <<items, numEntries, nPicks>> /\ mem' = [mem EXCEPT ![c] = Blank]
        /\ \E w \in {"enter", "wait"} : pc' = [pc EXCEPT ![c] = "dead", ![m] = w]
        /\ \E l \in Calls : call' = [call EXCEPT ![c] = None, ![m] = l]
    BY <1>2 DEF HandleException, Reap, shared, Calls
  <2>2. (mem'[c] = mem[Main] \/ mem'[c] = Blank) /\ \A s \in Spaces : s # c => mem'[s] = mem[s]
    BY <1>0, <2>1
  <2>5. /\ UNCHANGED <<items, numEntries, nPicks>> /\ m \in Threads /\ m \notin Tracees
        /\ \E v \in {"enter", "dead"}, w \in {"watch", "enter", "wait", "spawn"} :
             pc' = [pc EXCEPT ![c] = v, ![m] = w]
    BY <1>0, <2>1
  <2>6. \E k \in {"Sync", None}, l \in Calls : call' = [call EXCEPT ![c] = k, ![m] = l]
    BY <2>1
  <2>3. ObjectInv'
    BY <2>2, <2>5, <2>6, ObjectsSlot
  <2>4. ~SeqFacts
    BY <1>2 DEF HandleException, SeqFacts
  <2> QED BY <2>3, <2>4 DEF Conserves
<1>3. CASE UnwantedHeld(m)
  <2>1. /\ UNCHANGED <<numEntries, call, nPicks>> /\ call[m] = "IncUnwanted"
        /\ mem' = [mem EXCEPT ![Main] = [mem[Main] EXCEPT !.lastSeq = updatedSeq + 1]]
        /\ pc' = [pc EXCEPT ![m] = "unlock"]
    BY <1>0, <1>3 DEF UnwantedHeld, Goto, history
  <2>2. \A s \in Spaces : /\ mem'[s].snapshots = mem[s].snapshots
                          /\ mem'[s].lastItem = mem[s].lastItem
                          /\ mem'[s].attached = mem[s].attached
    BY <1>0, <2>1 DEF Local
  <2>3. \A s \in Spaces : Linked(mem'[s]) /\ \A i \in Positions : Held(mem'[s], i) = Held(mem[s], i)
    BY <2>2 DEF Linked, Held, ObjectInv
  <2>4. \A t \in Threads : AtMap(t)' => mem'[Space(t)].attached
    <3>1. \A t \in Threads : AtMap(t)' => AtMap(t) /\ Space(t) \in Spaces
      BY <1>0, <2>1 DEF AtMap, Space, Spaces, Threads, MainThreads
    <3> QED BY <2>2, <3>1 DEF ObjectInv
  <2>5. \A d \in Tracees : (pc'[d] = "dead" => pc[d] = "dead") /\ (Pending(d)' => Pending(d))
    BY <1>0, <2>1 DEF Pending
  <2>6. ObjectInv'
    BY <1>0, <2>1, <2>3, <2>4, <2>5, ObjectStill
  <2>7. ~SeqFacts
    BY <1>0, <2>1 DEF SeqFacts
  <2> QED BY <2>6, <2>7 DEF Conserves
<1>4. CASE UnwantedNull(m)
  BY <1>4, ObjectsSegv DEF UnwantedNull, shared, history
<1> QED BY <1>0, <1>1, <1>2, <1>3, <1>4, ObjectsCall, MonitorStep(m) DEF MonitorStep

LEMMA ObjectsStatus ==
  ASSUME BaseInv, ObjectInv, NEW s \in Printers, StatusStep(s)
  PROVE  ObjectInv' /\ Conserves
<1>0. /\ s \in Threads /\ s \notin Tracees /\ Tracees \subseteq Threads
      /\ pc \in [Threads -> Places] /\ call \in [Threads -> Calls]
      /\ nPicks \in Nat /\ nPicks <= MaxPicks
  BY ActorsAssumption DEF Threads, MainThreads, BaseInv, ControlInv, ControlType, ObjectInv
<1>1. CASE PrintStatus(s)
  <2>1. /\ UNCHANGED <<items, numEntries, mem, nPicks>>
        /\ pc' = [pc EXCEPT ![s] = "enter"] /\ call' = [call EXCEPT ![s] = "Sync"]
    BY <1>1 DEF PrintStatus, Enter, Goto, shared, history
  <2>2. ThreadsFit
    BY <1>0, <2>1 DEF ThreadsFit, AtMap, Pending
  <2> QED BY <2>1, <2>2, ObjectsUntouched
<1>2. CASE PrintDecay(s)
  <2>1. UNCHANGED <<items, numEntries, mem, nPicks, call>>
    BY <1>2 DEF PrintDecay, shared, history
  <2>2. CASE pc' = [pc EXCEPT ![s] = "idle"]
    <3>1. ThreadsFit
      BY <1>0, <2>1, <2>2 DEF ThreadsFit, AtMap, Pending
    <3> QED BY <2>1, <3>1, ObjectsUntouched
  <2> QED BY <1>2, <2>1, <2>2, ObjectsSegv DEF PrintDecay, Goto
<1> QED BY <1>0, <1>1, <1>2, ObjectsCall, StatusStep(s) DEF StatusStep

LEMMA ObjectsFault ==
  ASSUME BaseInv, ObjectInv, Fault
  PROVE  ObjectInv' /\ Conserves
<1>0. /\ Tracees \subseteq Threads /\ Tracees \subseteq Spaces /\ Monitors \subseteq Threads
      /\ Monitors \cap Tracees = {} /\ Main \in Spaces
      /\ pc \in [Threads -> Places] /\ call \in [Threads -> Calls] /\ mem \in [Spaces -> Local]
      /\ items \in Seq(Header) /\ numEntries \in Nat /\ numEntries <= Len(items)
      /\ nPicks \in Nat /\ nPicks <= MaxPicks
      /\ nCrashes \in Nat /\ nKills \in Nat /\ nRestarts \in Nat
  BY ActorsAssumption DEF Threads, MainThreads, Spaces, BaseInv, ControlInv, ControlType,
     DataInv, DataType, Laid, ObjectInv
<1>1. ASSUME NEW c \in Tracees, Crash(c) PROVE ObjectInv' /\ Conserves
  <2>1. /\ UNCHANGED <<items, numEntries, mem, call, nPicks>> /\ pc' = [pc EXCEPT ![c] = "crashed"]
    BY <1>1 DEF Crash, Goto, shared
  <2>2. ThreadsFit
    BY <1>0, <2>1 DEF ThreadsFit, AtMap, Pending
  <2> QED BY <2>1, <2>2, ObjectsUntouched
<1>2. ASSUME NEW m \in Monitors, NEW c \in Tracees, Kill(m, c) PROVE ObjectInv' /\ Conserves
  <2>1. /\ UNCHANGED <<items, numEntries, nPicks>> /\ nKills' = nKills + 1
        /\ mem' = [mem EXCEPT ![c] = Blank] /\ m \in Threads /\ m \notin Tracees
        /\ pc' = [pc EXCEPT ![c] = "dead", ![m] = "spawn"] /\ call' = [call EXCEPT ![c] = None]
    BY <1>0, <1>2 DEF Kill, Reap, shared
  <2>2. (mem'[c] = mem[Main] \/ mem'[c] = Blank) /\ \A s \in Spaces : s # c => mem'[s] = mem[s]
    BY <1>0, <2>1
  <2>3. call' = [call EXCEPT ![c] = None, ![m] = call[m]] /\ call[m] \in Calls
    BY <1>0, <2>1
  <2>4. /\ UNCHANGED <<items, numEntries, nPicks>> /\ m \in Threads /\ m \notin Tracees
        /\ \E v \in {"enter", "dead"}, w \in {"watch", "enter", "wait", "spawn"} :
             pc' = [pc EXCEPT ![c] = v, ![m] = w]
    BY <2>1
  <2>5. \E k \in {"Sync", None}, l \in Calls : call' = [call EXCEPT ![c] = k, ![m] = l]
    BY <2>3
  <2>6. ObjectInv'
    BY <2>2, <2>4, <2>5, ObjectsSlot
  <2>7. ~NobodyDied'
    BY <1>0, <2>1 DEF NobodyDied
  <2> QED BY <2>6, <2>7 DEF Conserves
<1>3. CASE Restart
  <2>1. /\ UNCHANGED <<items, numEntries, nPicks>> /\ nRestarts' = nRestarts + 1
        /\ mem' = FreshMem /\ pc' = FreshPc /\ call' = [t \in Threads |-> None]
    BY <1>3 DEF Restart, shared
  <2>2. \A s \in Spaces : Linked(mem'[s]) /\ \A i \in Positions : Held(mem'[s], i) = 0
    BY <1>0, <2>1, FreshObjects
  <2>3. \A t \in Threads : ~AtMap(t)' /\ ~Pending(t)'
    BY <2>1 DEF FreshPc, AtMap, Pending, None
  <2>4. \A c \in Tracees : ~Pending(c)'
    BY <1>0, <2>3
  <2>5. ObjectInv'
    BY <1>0, <2>1, <2>2, <2>3, <2>4, ObjectStill
  <2>6. ~NobodyDied'
    BY <1>0, <2>1 DEF NobodyDied
  <2> QED BY <2>5, <2>6 DEF Conserves
<1> QED BY <1>1, <1>2, <1>3, Fault DEF Fault

LEMMA ObjectStep == BaseInv /\ ObjectInv /\ [Next]_vars => ObjectInv' /\ Conserves
<1> SUFFICES ASSUME BaseInv, ObjectInv, [Next]_vars PROVE ObjectInv' /\ Conserves
  OBVIOUS
<1>1. CASE UNCHANGED vars
  <2>1. UNCHANGED <<items, numEntries, mem, pc, call, nPicks>>
    BY <1>1 DEF vars, shared, control, history
  <2>2. nPicks \in Nat /\ nPicks <= MaxPicks
    BY DEF BaseInv, ControlInv, ControlType, ObjectInv
  <2>3. ThreadsFit
    BY <2>1, <2>2 DEF ThreadsFit, AtMap, Pending
  <2> QED BY <2>1, <2>3, ObjectsUntouched
<1> QED BY <1>1, ObjectsTracee, ObjectsMonitor, ObjectsStatus, ObjectsFault DEF Next

LEMMA DiedBefore == NobodyDied => Trusted
BY DEF NobodyDied, Trusted

ObjectsSound == Sound /\ (split \/ ObjectInv)

LEMMA ObjectsSoundInit == Init => ObjectsSound
BY SoundInit, ObjectInit DEF ObjectsSound

LEMMA ObjectsSoundStep == ObjectsSound /\ [Next]_vars => ObjectsSound'
BY SoundStep, SplitStays, ObjectStep DEF ObjectsSound, Sound

LEMMA PicksAreKept ==
  IsFiniteSet(Spaces) /\ ObjectsSound /\ SeqInv /\ NobodyDied /\ NobodyDied' /\ [Next]_vars
    => (~split' /\ NoneAtLimit => PicksKept)
<1> SUFFICES ASSUME IsFiniteSet(Spaces), ObjectsSound, SeqInv, NobodyDied, NobodyDied', [Next]_vars,
                    ~split', NoneAtLimit
             PROVE  PicksKept
  OBVIOUS
<1>1. ~split
  BY SplitStays DEF ObjectsSound, Sound
<1>2. BaseInv /\ BaseInv' /\ ObjectInv
  BY <1>1, BaseStep DEF ObjectsSound, Sound
<1>3. SeqFacts
  BY DiedBefore DEF SeqInv
<1> QED BY <1>2, <1>3, ObjectStep DEF Conserves

\* No step loses a pick that a process has counted, while nobody dies: concurrent flushes
\* of SyncCountersInner add up, for any number of processes and any interleaving, unless
\* the item's own counter is saturated, the process that picks already holds as many picks
\* as its counter can count (GetItem, mmap.cpp:419), or a header is overwritten by a tracee
\* that was forked between the two stores that end SyncInner.
THEOREM NoPickIsLost ==
  ASSUME IsFiniteSet(Tracees)
  PROVE  Spec /\ []NobodyDied => PicksConserved
<1>1. IsFiniteSet(Spaces)
  <2>1. IsFiniteSet({Main})
    BY FS_Singleton
  <2> QED BY <2>1, FS_Union DEF Spaces
<1>2. ObjectsSound /\ SeqInv /\ NobodyDied /\ NobodyDied' /\ [Next]_vars
      => [~split' /\ NoneAtLimit => PicksKept]_vars
  BY <1>1, PicksAreKept
<1>3. [~split' /\ NoneAtLimit => PicksKept]_vars
      => [~split' /\ NoneAtLimit => \A i \in 1..numEntries :
            Picks(i)' >= IF Picks(i) < MaxCount THEN Picks(i) ELSE MaxCount]_vars
  BY DEF PicksKept
<1>4. Init => SeqInv
  BY SeqInit DEF SeqInv
<1>5. ObjectsSound => TypeInv
  BY DEF ObjectsSound, Sound
<1> QED
  BY <1>2, <1>3, <1>4, <1>5, ObjectsSoundInit, ObjectsSoundStep, SeqStep, PTL
  DEF Spec, PicksConserved

\* With no more calls of GetItem than a counter can count none comes to its limit, and so
\* the property's premise about the counters holds of itself.
COROLLARY FewPicksFit ==
  ASSUME MaxPicks <= MaxCount
  PROVE  Spec => [](~split => NoneAtLimit)
<1>1. BaseInv /\ ObjectInv => NoneAtLimit
  <2> SUFFICES ASSUME BaseInv, ObjectInv, NEW c \in Tracees, pc[c] = "pick",
                      NEW i \in 1..Len(mem[c].snapshots)
               PROVE  mem[c].snapshots[i].new < MaxCount
    BY DEF NoneAtLimit
  <2>1. mem[c] \in Local /\ mem[c].snapshots \in Seq(Entry)
    BY DEF BaseInv, DataInv, DataType, Spaces, Local
  <2>2. i \in Positions /\ Held(mem[c], i) = mem[c].snapshots[i].new
    BY <2>1 DEF Positions, Held
  <2>3. Held(mem[c], i) < nPicks /\ nPicks <= MaxPicks
    BY <2>2 DEF ObjectInv, Pending
  <2>4. Held(mem[c], i) \in Nat
    BY <2>1, <2>2, HeldType
  <2>5. nPicks \in Nat /\ MaxPicks \in Nat /\ MaxCount \in Nat
    BY BoundsAssumption DEF BaseInv, ControlInv, ControlType
  <2> QED BY <2>2, <2>3, <2>4, <2>5
<1>2. ObjectsSound => (~split => NoneAtLimit)
  BY <1>1 DEF ObjectsSound, Sound
<1> QED
  BY <1>2, ObjectsSoundInit, ObjectsSoundStep, PTL DEF Spec

-----------------------------------------------------------------------------
(* Lineage.  The parents form a forest in which every parent precedes its    *)
(* offspring; the least closed set of UpdateStats's walk, the counters and    *)
(* the walk by which they are defined speak of the same ancestors.            *)

LEMMA LeastNat ==
  ASSUME NEW S \in SUBSET Nat, S # {}
  PROVE  \E x \in S : \A y \in S : x <= y
<1>1. PICK x \in S : \A y \in S : ~ (<<y, x>> \in OpToRel(<, Nat))
  BY NatLessThanWellFounded, WFMin
<1>2. \A y \in S : ~ (y < x)
  BY <1>1 DEF OpToRel
<1> QED BY <1>2

\* h: headers or entries.  S has with a position that of its parent.
ParentClosed(h, S) == \A i \in S : h[i].parent \in 1..Len(h) => h[i].parent \in S

Rooted(h) ==
  /\ Len(h) \in Nat
  /\ \A i \in 1..Len(h) : h[i].parent \in 0..(i - 1)

LEMMA AncestorsAre ==
  ASSUME NEW h, NEW p, NEW a
  PROVE  a \in Ancestors(h, p) <=>
           /\ a \in 1..Len(h)
           /\ \A S \in SUBSET (1..Len(h)) :
                (p \in 1..Len(h) => p \in S) /\ ParentClosed(h, S) => a \in S
BY DEF Ancestors, ParentClosed

\* The set is itself closed.
LEMMA AncestorsClosed ==
  ASSUME NEW h, NEW p
  PROVE  /\ Ancestors(h, p) \subseteq 1..Len(h)
         /\ p \in 1..Len(h) => p \in Ancestors(h, p)
         /\ ParentClosed(h, Ancestors(h, p))
<1>1. ASSUME NEW i \in Ancestors(h, p), h[i].parent \in 1..Len(h)
      PROVE  h[i].parent \in Ancestors(h, p)
  <2>1. ASSUME NEW S \in SUBSET (1..Len(h)), p \in 1..Len(h) => p \in S, ParentClosed(h, S)
        PROVE  h[i].parent \in S
    BY <1>1, <2>1, AncestorsAre DEF ParentClosed
  <2> QED BY <1>1, <2>1, AncestorsAre
<1> QED BY <1>1, AncestorsAre DEF ParentClosed

LEMMA AncestorsLeast ==
  ASSUME NEW h, NEW p, NEW S \in SUBSET (1..Len(h)), p \in 1..Len(h) => p \in S, ParentClosed(h, S)
  PROVE  Ancestors(h, p) \subseteq S
BY AncestorsAre

\* Nobody is above position p, so an item laid down later changes nothing for it.
LEMMA AncestorsPrecede ==
  ASSUME NEW h, Rooted(h), NEW p \in 0..Len(h)
  PROVE  Ancestors(h, p) \subseteq 1..p
<1> DEFINE S == 1..p
<1>1. S \subseteq 1..Len(h) /\ ParentClosed(h, S) /\ (p \in 1..Len(h) => p \in S)
  BY DEF Rooted, ParentClosed
<1> QED BY <1>1, AncestorsLeast

LEMMA AncestorsSame ==
  ASSUME NEW h, NEW g, NEW p, Rooted(h), Rooted(g), Len(h) <= Len(g), p \in 0..Len(h),
         \A i \in 1..Len(h) : g[i].parent = h[i].parent
  PROVE  Ancestors(g, p) = Ancestors(h, p)
<1> DEFINE A == Ancestors(h, p)
           B == Ancestors(g, p)
<1>1. /\ A \subseteq 1..p /\ B \subseteq 1..p /\ Len(h) \in Nat /\ Len(g) \in Nat
      /\ 1..p \subseteq 1..Len(h) /\ 1..Len(h) \subseteq 1..Len(g)
  <2>1. p \in 0..Len(g)
    BY DEF Rooted
  <2> QED BY <2>1, AncestorsPrecede DEF Rooted
<1>2. /\ ParentClosed(h, A) /\ ParentClosed(g, B)
      /\ p \in 1..Len(h) => p \in A
      /\ p \in 1..Len(g) => p \in B
  BY AncestorsClosed
<1> HIDE DEF A, B
<1>3. p \in 1..Len(g) <=> p \in 1..Len(h)
  BY <1>1
<1>4. ParentClosed(g, A) /\ ParentClosed(h, B)
  <2>1. \A i \in 1..p : /\ g[i].parent = h[i].parent
                        /\ h[i].parent \in 1..Len(h) <=> g[i].parent \in 1..Len(g)
    BY <1>1 DEF Rooted
  <2> QED BY <1>1, <1>2, <2>1 DEF ParentClosed
<1>5. B \subseteq A
  <2>1. A \in SUBSET (1..Len(g)) /\ (p \in 1..Len(g) => p \in A)
    BY <1>1, <1>2, <1>3
  <2> QED BY <2>1, <1>4, AncestorsLeast DEF B
<1>6. A \subseteq B
  <2>1. B \in SUBSET (1..Len(h)) /\ (p \in 1..Len(h) => p \in B)
    BY <1>1, <1>2, <1>3
  <2> QED BY <2>1, <1>4, AncestorsLeast DEF A
<1> QED BY <1>5, <1>6 DEF A, B

\* The counters are what the parents imply.
Offspring(h, i) == {j \in 1..Len(h) : h[j].parent = i}
Descendants(h, i) == {j \in 1..Len(h) : i \in Ancestors(h, h[j].parent)}

Counted(h, i) ==
  /\ h[i].anc = Cardinality(Ancestors(h, h[i].parent))
  /\ h[i].direct = Cardinality(Offspring(h, i))
  /\ h[i].desc = Cardinality(Descendants(h, i))

Lineage(h) == Rooted(h) /\ \A i \in 1..Len(h) : Counted(h, i)

LEMMA DepthIsCount ==
  ASSUME NEW h, Rooted(h), NEW p \in 0..Len(h)
  PROVE  AncestorDepth(h, p) = Cardinality(Ancestors(h, p)) /\ Cardinality(Ancestors(h, p)) \in Nat
<1>1. Ancestors(h, p) \subseteq 1..Len(h) /\ Len(h) \in Nat
  BY AncestorsClosed DEF Rooted
<1>2. IsFiniteSet(Ancestors(h, p)) /\ Cardinality(Ancestors(h, p)) \in Nat
  <2>1. IsFiniteSet(1..Len(h)) /\ Ancestors(h, p) \in SUBSET (1..Len(h))
    BY <1>1, FS_Interval
  <2> QED BY <2>1, FS_Subset, FS_CardinalityType
<1>3. {a \in Ancestors(h, p) : h[a].parent = a} = {}
  BY <1>1 DEF Rooted
<1>4. AncestorDepth(h, p) = Cardinality(Ancestors(h, p)) + Cardinality({})
  BY <1>3 DEF AncestorDepth
<1> QED BY <1>2, <1>4, FS_EmptySet

LEMMA CountsAreFinite ==
  ASSUME NEW h, Len(h) \in Nat, NEW i
  PROVE  /\ IsFiniteSet(Offspring(h, i)) /\ Cardinality(Offspring(h, i)) \in Nat
         /\ IsFiniteSet(Descendants(h, i)) /\ Cardinality(Descendants(h, i)) \in Nat
<1>1. IsFiniteSet(1..Len(h)) /\ Offspring(h, i) \in SUBSET (1..Len(h))
      /\ Descendants(h, i) \in SUBSET (1..Len(h))
  BY FS_Interval DEF Offspring, Descendants
<1> QED BY <1>1, FS_Subset, FS_CardinalityType

\* What lists that agree on the parents have in common.
SameParents(h, g) == Len(g) = Len(h) /\ \A i \in 1..Len(h) : g[i].parent = h[i].parent

LEMMA LineageSame ==
  ASSUME NEW h, NEW g, Lineage(h), SameParents(h, g),
         \A i \in 1..Len(h) : /\ g[i].anc = h[i].anc
                              /\ g[i].direct = h[i].direct
                              /\ g[i].desc = h[i].desc
  PROVE  Lineage(g)
<1>1. Rooted(h) /\ Rooted(g) /\ Len(g) = Len(h) /\ Len(h) \in Nat
  BY DEF Lineage, Rooted, SameParents
<1>2. ASSUME NEW i \in 1..Len(h)
      PROVE  g[i].parent = h[i].parent /\ Ancestors(g, g[i].parent) = Ancestors(h, h[i].parent)
  <2>1. g[i].parent = h[i].parent /\ h[i].parent \in 0..Len(h)
    BY <1>1 DEF SameParents, Rooted
  <2> QED BY <2>1, <1>1, AncestorsSame DEF SameParents
<1>3. ASSUME NEW i \in 1..Len(h)
      PROVE  Offspring(g, i) = Offspring(h, i) /\ Descendants(g, i) = Descendants(h, i)
  BY <1>1, <1>2 DEF Offspring, Descendants
<1> QED BY <1>1, <1>2, <1>3 DEF Lineage, Counted

\* UpdateStats keeps the counters right, given a mirror of all items: the entry
\* that is added has its ancestors' number, its parent one more child, and each of
\* its ancestors one more descendant.
LEMMA LineageGrows ==
  ASSUME NEW h \in Seq(Header), NEW snap, NEW p \in 0..Len(h), NEW e \in Header,
         Lineage(h), SameParents(h, snap),
         e.parent = p, e.direct = 0, e.desc = 0, e.anc = AncestorDepth(snap, p)
  PROVE  Lineage(Append(CountOffspring(h, snap, p), e))
<1> DEFINE n == Len(h)
           c == CountOffspring(h, snap, p)
           g == Append(c, e)
<1>1. Rooted(h) /\ Rooted(snap) /\ Len(snap) = n /\ n \in Nat /\ p \in 0..n /\ p \in Nat
      /\ Ancestors(snap, p) = Ancestors(h, p)
  <2>1. Rooted(h) /\ Rooted(snap) /\ Len(snap) = n /\ n \in Nat
    BY DEF Lineage, Rooted, SameParents
  <2> QED BY <2>1, AncestorsSame DEF SameParents
<1>2. e.anc = Cardinality(Ancestors(h, p))
  BY <1>1, DepthIsCount
<1>3. ASSUME NEW i \in 1..n
      PROVE  /\ c[i].parent = h[i].parent /\ c[i].anc = h[i].anc
             /\ c[i].direct = h[i].direct + (IF i = p THEN 1 ELSE 0)
             /\ c[i].desc = h[i].desc + (IF i \in Ancestors(h, p) THEN 1 ELSE 0)
  <2>1. h[i] \in Header
    OBVIOUS
  <2> DEFINE d == h[i].direct + (IF i = p THEN 1 ELSE 0)
             f == h[i].desc + (IF i \in Ancestors(h, p) THEN 1 ELSE 0)
  <2>2. c[i] = [h[i] EXCEPT !.direct = d, !.desc = f]
    BY <1>1 DEF CountOffspring
  <2> HIDE DEF c, d, f
  <2>3. c[i].parent = h[i].parent /\ c[i].anc = h[i].anc /\ c[i].direct = d /\ c[i].desc = f
    BY <2>1, <2>2 DEF Header
  <2> QED BY <2>3 DEF d, f
<1>4. Len(g) = n + 1 /\ (\A i \in 1..n : g[i] = c[i]) /\ g[n + 1] = e
  <2>1. c \in Seq(Header) /\ Len(c) = n
    <3>1. c \in [1..n -> Header]
      <4>1. ASSUME NEW i \in 1..n PROVE c[i] \in Header
        <5>1. h[i] \in Header
          OBVIOUS
        <5> DEFINE d == h[i].direct + (IF i = p THEN 1 ELSE 0)
                   f == h[i].desc + (IF i \in Ancestors(h, p) THEN 1 ELSE 0)
        <5>2. c[i] = [h[i] EXCEPT !.direct = d, !.desc = f]
          BY <1>1 DEF CountOffspring
        <5>3. d \in Nat /\ f \in Nat
          <6>1. \A x \in Nat, b \in BOOLEAN : x + (IF b THEN 1 ELSE 0) \in Nat
            OBVIOUS
          <6>2. h[i].direct \in Nat /\ h[i].desc \in Nat
            BY <5>1 DEF Header
          <6> QED BY <6>1, <6>2
        <5> HIDE DEF c, d, f
        <5> QED BY <5>1, <5>2, <5>3 DEF Header
      <4> QED BY <4>1 DEF CountOffspring
    <3> HIDE DEF c
    <3> QED BY <3>1, <1>1, FunctionIsSeq
  <2> HIDE DEF c
  <2> QED BY <2>1, <1>1
<1> HIDE DEF c, g
<1>5. ASSUME NEW i \in 1..n
      PROVE  /\ g[i].parent = h[i].parent /\ g[i].anc = h[i].anc
             /\ g[i].direct = h[i].direct + (IF i = p THEN 1 ELSE 0)
             /\ g[i].desc = h[i].desc + (IF i \in Ancestors(h, p) THEN 1 ELSE 0)
  BY <1>3, <1>4
<1>6. Rooted(g) /\ g[n + 1].parent = p
  <2>1. ASSUME NEW i \in 1..(n + 1) PROVE g[i].parent \in 0..(i - 1)
    <3>1. CASE i \in 1..n
      BY <3>1, <1>1, <1>5 DEF Rooted
    <3>2. CASE i = n + 1
      BY <3>2, <1>1, <1>4
    <3> QED BY <3>1, <3>2, <1>1
  <2>2. Len(g) = n + 1 /\ n + 1 \in Nat /\ g[n + 1].parent = p
    BY <1>1, <1>4
  <2> QED BY <2>1, <2>2 DEF Rooted
<1>7. \A q \in 0..n : Ancestors(g, q) = Ancestors(h, q) /\ Ancestors(g, q) \subseteq 1..n
  <2>1. ASSUME NEW q \in 0..n PROVE Ancestors(g, q) = Ancestors(h, q)
    <3>1. Len(h) <= Len(g) /\ \A i \in 1..Len(h) : g[i].parent = h[i].parent
      BY <1>1, <1>4, <1>5
    <3> QED BY <3>1, <1>1, <1>6, AncestorsSame
  <2> QED BY <2>1, AncestorsClosed
<1>8. \A j \in 1..n : g[j].parent \in 0..n /\ g[j].parent = h[j].parent
  BY <1>1, <1>5 DEF Rooted
<1>9. ASSUME NEW i \in 1..n PROVE Counted(g, i)
  <2>1. g[i].anc = Cardinality(Ancestors(g, g[i].parent))
    BY <1>5, <1>7, <1>8 DEF Lineage, Counted
  <2>2. g[i].direct = Cardinality(Offspring(g, i))
    <3>1. Offspring(g, i) = IF i = p THEN Offspring(h, i) \cup {n + 1} ELSE Offspring(h, i)
      BY <1>1, <1>4, <1>6, <1>8 DEF Offspring
    <3>2. n + 1 \notin Offspring(h, i)
      BY <1>1 DEF Offspring
    <3>3. h[i].direct = Cardinality(Offspring(h, i))
      BY DEF Lineage, Counted
    <3>4. IsFiniteSet(Offspring(h, i)) /\ Cardinality(Offspring(h, i)) \in Nat
      BY <1>1, CountsAreFinite
    <3>5. Cardinality(Offspring(h, i) \cup {n + 1}) = Cardinality(Offspring(h, i)) + 1
      BY <3>2, <3>4, FS_AddElement
    <3> QED BY <1>5, <3>1, <3>3, <3>4, <3>5
  <2>3. g[i].desc = Cardinality(Descendants(g, i))
    <3>1. Descendants(g, i) = IF i \in Ancestors(h, p) THEN Descendants(h, i) \cup {n + 1}
                              ELSE Descendants(h, i)
      <4>1. \A j \in 1..n : Ancestors(g, g[j].parent) = Ancestors(h, h[j].parent)
        BY <1>7, <1>8
      <4>2. Ancestors(g, g[n + 1].parent) = Ancestors(h, p)
        BY <1>1, <1>6, <1>7
      <4>3. 1..Len(g) = (1..n) \cup {n + 1}
        BY <1>1, <1>4
      <4> QED BY <4>1, <4>2, <4>3 DEF Descendants
    <3>2. n + 1 \notin Descendants(h, i)
      BY <1>1 DEF Descendants
    <3>3. h[i].desc = Cardinality(Descendants(h, i))
      BY DEF Lineage, Counted
    <3>4. IsFiniteSet(Descendants(h, i)) /\ Cardinality(Descendants(h, i)) \in Nat
      BY <1>1, CountsAreFinite
    <3>5. Cardinality(Descendants(h, i) \cup {n + 1}) = Cardinality(Descendants(h, i)) + 1
      BY <3>2, <3>4, FS_AddElement
    <3> QED BY <1>5, <3>1, <3>3, <3>4, <3>5
  <2> QED BY <2>1, <2>2, <2>3 DEF Counted
<1>10. Counted(g, n + 1)
  <2>1. Offspring(g, n + 1) = {}
    <3>1. \A j \in 1..(n + 1) : g[j].parent # n + 1
      BY <1>1, <1>4, <1>6 DEF Rooted
    <3> QED BY <3>1, <1>4 DEF Offspring
  <2>2. Descendants(g, n + 1) = {}
    <3>1. \A j \in 1..(n + 1) : g[j].parent \in 0..n
      BY <1>1, <1>4, <1>6 DEF Rooted
    <3>2. \A j \in 1..(n + 1) : n + 1 \notin Ancestors(g, g[j].parent)
      BY <3>1, <1>1, <1>7
    <3> QED BY <3>2, <1>4 DEF Descendants
  <2>3. Ancestors(g, g[n + 1].parent) = Ancestors(h, p)
    BY <1>1, <1>6, <1>7
  <2> QED BY <1>2, <1>4, <2>1, <2>2, <2>3, FS_EmptySet DEF Counted
<1>11. \A i \in 1..Len(g) : Counted(g, i)
  BY <1>1, <1>4, <1>9, <1>10
<1> QED BY <1>6, <1>11 DEF Lineage, g, c

\* The walk from parent to parent, from position p, as far as step k.
Walks(h, p, k, up) ==
  up = [n \in 0..k |-> IF n = 0 THEN p ELSE IF up[n-1] = 0 THEN 0 ELSE h[up[n-1]].parent]

LEMMA WalkExists ==
  ASSUME NEW h, NEW p, NEW k \in Nat
  PROVE  \E up : Walks(h, p, k, up)
<1> DEFINE S == {n \in Nat : ~\E up : Walks(h, p, n, up)}
<1> SUFFICES ASSUME S # {} PROVE FALSE
  OBVIOUS
<1>1. PICK n \in S : \A y \in S : n <= y
  <2>1. S \in SUBSET Nat
    OBVIOUS
  <2> HIDE DEF S
  <2> QED BY <2>1, LeastNat
<1>2. n \in Nat /\ ~\E up : Walks(h, p, n, up)
  BY <1>1
<1>3. CASE n = 0
  <2> DEFINE up == [i \in 0..0 |-> p]
  <2>1. Walks(h, p, 0, up)
    BY DEF Walks
  <2> QED BY <2>1, <1>2, <1>3
<1>4. CASE n # 0
  <2>1. n - 1 \in Nat /\ n - 1 \notin S
    BY <1>1, <1>2, <1>4
  <2>2. PICK u : Walks(h, p, n - 1, u)
    BY <2>1
  <2> DEFINE up == [i \in 0..n |-> IF i = n THEN IF u[n-1] = 0 THEN 0 ELSE h[u[n-1]].parent ELSE u[i]]
  <2>3. \A i \in 0..(n - 1) : u[i] = IF i = 0 THEN p ELSE IF u[i-1] = 0 THEN 0 ELSE h[u[i-1]].parent
    BY <2>2 DEF Walks
  <2>4. \A i \in 0..n : up[i] = IF i = 0 THEN p ELSE IF up[i-1] = 0 THEN 0 ELSE h[up[i-1]].parent
    BY <2>1, <2>3, <1>2, <1>4
  <2>5. up = [i \in 0..n |-> up[i]]
    OBVIOUS
  <2> HIDE DEF up
  <2>6. Walks(h, p, n, up)
    BY <2>4, <2>5 DEF Walks
  <2> QED BY <2>6, <1>2
<1> QED BY <1>3, <1>4

\* It climbs at least one position at a time, so it has ended at step Len(h).
LEMMA WalkEnds ==
  ASSUME NEW h, Rooted(h), NEW p \in 0..(Len(h) - 1), NEW up, Walks(h, p, Len(h), up)
  PROVE  \A n \in 0..Len(h) : up[n] \in 0..Len(h) /\ (up[n] = 0 \/ up[n] + n < Len(h))
<1> DEFINE N == Len(h)
           P(n) == up[n] \in 0..N /\ (up[n] = 0 \/ up[n] + n < N)
           S == {n \in 0..N : ~P(n)}
<1> SUFFICES ASSUME S # {} PROVE FALSE
  OBVIOUS
<1>1. N \in Nat /\ p \in Nat
  BY DEF Rooted
<1>2. PICK n \in S : \A y \in S : n <= y
  <2>1. S \in SUBSET Nat
    BY <1>1
  <2> HIDE DEF S
  <2> QED BY <2>1, LeastNat
<1>3. up[n] = IF n = 0 THEN p ELSE IF up[n-1] = 0 THEN 0 ELSE h[up[n-1]].parent
  BY <1>2 DEF Walks
<1>4. CASE n = 0
  BY <1>1, <1>2, <1>3, <1>4
<1>5. CASE n # 0
  <2>1. n \in Nat /\ n - 1 \in 0..N /\ n - 1 \notin S
    BY <1>1, <1>2, <1>5
  <2>2. P(n - 1)
    BY <2>1
  <2>3. CASE up[n-1] = 0
    BY <1>1, <1>2, <1>3, <1>5, <2>3
  <2>4. CASE up[n-1] # 0
    <3>1. up[n-1] \in 1..N /\ up[n-1] + (n - 1) < N /\ up[n-1] \in Nat
      BY <1>1, <2>2, <2>4
    <3>2. up[n] \in 0..(up[n-1] - 1)
      BY <1>3, <1>5, <2>4, <3>1 DEF Rooted
    <3>3. P(n)
      BY <1>1, <2>1, <3>1, <3>2
    <3> QED BY <1>2, <3>3
  <2> QED BY <2>3, <2>4
<1> QED BY <1>4, <1>5

\* What it meets are the ancestors.
LEMMA WalkMeets ==
  ASSUME NEW h, Rooted(h), NEW p \in 0..(Len(h) - 1), NEW up, Walks(h, p, Len(h), up)
  PROVE  {up[n] : n \in 0..Len(h)} \ {0} = Ancestors(h, p)
<1> DEFINE N == Len(h)
           M == {up[n] : n \in 0..N} \ {0}
           A == Ancestors(h, p)
<1>1. N \in Nat /\ p \in Nat /\ p \in 0..N
  BY DEF Rooted
<1>2. \A n \in 0..N : up[n] = IF n = 0 THEN p ELSE IF up[n-1] = 0 THEN 0 ELSE h[up[n-1]].parent
  BY DEF Walks
<1>3. \A n \in 0..N : up[n] \in 0..N /\ (up[n] = 0 \/ up[n] + n < N)
  BY WalkEnds
<1>4. A \subseteq M
  <2>1. M \in SUBSET (1..N)
    BY <1>1, <1>3
  <2>2. p \in 1..N => p \in M
    BY <1>1, <1>2
  <2>3. ASSUME NEW i \in M, h[i].parent \in 1..N PROVE h[i].parent \in M
    <3>1. PICK n \in 0..N : i = up[n] /\ i # 0
      BY <2>3
    <3>2. n + 1 \in 0..N /\ n \in Nat /\ (n + 1) - 1 = n /\ n + 1 # 0
      BY <1>1, <1>3, <3>1
    <3>3. up[n + 1] = h[i].parent
      BY <1>2, <3>1, <3>2
    <3>4. h[i].parent # 0
      BY <1>1, <2>3
    <3> QED BY <3>2, <3>3, <3>4
  <2>4. ParentClosed(h, M)
    BY <2>3 DEF ParentClosed
  <2> HIDE DEF M
  <2> QED BY <2>1, <2>2, <2>4, AncestorsLeast
<1>5. M \subseteq A
  <2> DEFINE S == {n \in 0..N : up[n] # 0 /\ up[n] \notin A}
  <2> SUFFICES ASSUME S # {} PROVE FALSE
    OBVIOUS
  <2>1. PICK n \in S : \A y \in S : n <= y
    <3>1. S \in SUBSET Nat
      BY <1>1
    <3> HIDE DEF S
    <3> QED BY <3>1, LeastNat
  <2>2. (p \in 1..N => p \in A) /\ ParentClosed(h, A)
    BY AncestorsClosed
  <2>3. n \in 0..N /\ up[n] # 0 /\ up[n] \notin A /\ up[n] \in 0..N
    BY <2>1, <1>3
  <2> HIDE DEF A
  <2>4. CASE n = 0
    BY <1>1, <1>2, <2>2, <2>3, <2>4
  <2>5. CASE n # 0
    <3>1. n - 1 \in 0..N /\ n - 1 \notin S
      BY <1>1, <2>1, <2>3, <2>5
    <3>2. up[n-1] # 0 /\ up[n] = h[up[n-1]].parent
      BY <1>2, <2>3, <2>5
    <3>3. up[n-1] \in A
      BY <3>1, <3>2
    <3>4. up[n] \in 1..N
      BY <1>1, <2>3
    <3> QED BY <2>2, <2>3, <3>2, <3>3, <3>4 DEF ParentClosed
  <2> QED BY <2>4, <2>5
<1> QED BY <1>4, <1>5

\* In a map in which every item is counted, the walk of TrueAncestors, too.
LEMMA TrueAncestorsAre ==
  ASSUME Rooted(items), numEntries = Len(items), NEW i \in 1..numEntries
  PROVE  TrueAncestors(i) = Ancestors(items, items[i].parent)
<1> DEFINE p == items[i].parent
           up == CHOOSE u : Walks(items, p, numEntries, u)
<1>1. p \in 0..(Len(items) - 1) /\ numEntries \in Nat
  BY DEF Rooted
<1>2. Walks(items, p, numEntries, up)
  BY <1>1, WalkExists
<1>3. TrueAncestors(i) = {up[n] : n \in 0..numEntries} \ {0}
  BY DEF TrueAncestors, Walks
<1> HIDE DEF up
<1> QED BY <1>1, <1>2, <1>3, WalkMeets

-----------------------------------------------------------------------------
(* The items' counters stay what the parents imply.                         *)

\* No process has a half-done mirror, no item has been laid down over another one, and
\* an item that is laid down and not counted belongs to a process that is about to count it.
Undisturbed ==
  /\ ~split
  /\ \A c \in Tracees : ~torn[c]
  /\ numEntries = Len(items) \/ \E c \in Tracees : pc[c] = "publish"

LEMMA FlushToLineage ==
  ASSUME NEW hdrs \in Seq(Header), NEW snap \in Seq(Entry), Lineage(hdrs)
  PROVE  Lineage(FlushTo(hdrs, snap))
<1>1. ASSUME NEW i \in 1..Len(hdrs)
      PROVE  /\ FlushTo(hdrs, snap)[i].parent = hdrs[i].parent
             /\ FlushTo(hdrs, snap)[i].anc = hdrs[i].anc
             /\ FlushTo(hdrs, snap)[i].direct = hdrs[i].direct
             /\ FlushTo(hdrs, snap)[i].desc = hdrs[i].desc
  <2>1. hdrs[i] \in Header
    OBVIOUS
  <2> QED BY <2>1 DEF FlushTo, Header
<1>2. Len(FlushTo(hdrs, snap)) = Len(hdrs)
  BY FlushToType
<1>3. SameParents(hdrs, FlushTo(hdrs, snap))
  BY <1>1, <1>2 DEF SameParents
<1> QED BY <1>1, <1>3, LineageSame

LEMMA LineageAddWrite ==
  ASSUME BaseInv, MirrorInv, ObjectInv, Undisturbed, Lineage(items), NEW c \in Tracees, AddWrite(c)
  PROVE  Lineage(items')
<1> DEFINE snap == mem[c].snapshots
           p == IF used[c] THEN mem[c].lastItem ELSE 0
           header == [key |-> key[c], parent |-> p, mut |-> 0, direct |-> 0, desc |-> 0,
                      anc |-> AncestorDepth(snap, p)]
           base == SubSeq(items, 1, numEntries)
<1>1. /\ c \in Threads /\ c \in Spaces /\ mem[c] \in Local /\ snap \in Seq(Entry)
      /\ items \in Seq(Header) /\ numEntries \in Nat /\ Tracees \subseteq Threads
      /\ key[c] \in Keys /\ 0 \in Counter /\ used[c] \in BOOLEAN /\ mem[c].lastItem \in Nat
      /\ \A t \in Threads : Space(t) = c => t = c
  <2>1. call[c] = "Add" /\ c \in Threads /\ \A t \in Threads : Space(t) = c => t = c
    BY ActorsAssumption DEF AddWrite, Threads, MainThreads, Space
  <2>2. key[c] \in Keys
    BY <2>1 DEF BaseInv, ControlInv, Adding
  <2> QED BY <2>1, <2>2, BoundsAssumption DEF BaseInv, DataInv, DataType, ControlInv, ControlType,
             Spaces, Threads, MainThreads, Local, Counter
<1>2. /\ pc[c] = "held" /\ call[c] = "Add"
      /\ items' = Append(CountOffspring(base, snap, p), header)
  BY AddWritePlain DEF PlainAddWrite
<1>3. \A u \in Threads : u # c => ~InSection(u)
  BY <1>1, <1>2 DEF BaseInv, Locking, MutualExclusion, InSection
<1>4. numEntries = Len(items) /\ base = items
  <2>1. numEntries = Len(items)
    BY <1>1, <1>2, <1>3 DEF Undisturbed, InSection
  <2> QED BY <1>1, <2>1
<1>5. SpaceInv(c) /\ mem[c].nextIndex = numEntries
  BY <1>1, <1>2, AdderAtEnd DEF BaseInv, DataInv, MirrorInv, Whole, Undisturbed, Checked
<1>6. Len(snap) = numEntries
  <2>1. ~Merging(c) /\ ~Ahead(c) /\ ~Stopped(c)
    BY <1>1, <1>2, ActorsAssumption DEF Merging, Ahead, Stopped
  <2> QED BY <1>5, <2>1 DEF SpaceInv, Extent
<1>7. SameParents(items, snap)
  BY <1>4, <1>5, <1>6 DEF SameParents, SpaceInv, Prefix
<1>8. p \in 0..Len(items)
  <2>1. mem[c].lastItem <= Len(snap)
    BY <1>1 DEF ObjectInv, Linked
  <2> QED BY <1>1, <1>4, <1>6, <2>1
<1>9. AncestorDepth(snap, p) \in Nat /\ p \in Nat
  BY <1>1, <1>8, AncestorDepthType
<1>10. header \in Header
  BY <1>1, <1>9 DEF Header, AnyKey
<1>11. /\ header.parent = p /\ header.direct = 0 /\ header.desc = 0
       /\ header.anc = AncestorDepth(snap, p)
  OBVIOUS
<1> HIDE DEF p, header, snap, base
<1> QED BY <1>1, <1>2, <1>4, <1>7, <1>8, <1>10, <1>11, LineageGrows

LEMMA LineageInit == Init => Lineage(items)
BY DEF Init, Lineage, Rooted

LEMMA LineageStep ==
  BaseInv /\ MirrorInv /\ ObjectInv /\ Undisturbed /\ Lineage(items) /\ [Next]_vars => Lineage(items')
<1> SUFFICES ASSUME BaseInv, MirrorInv, ObjectInv, Undisturbed, Lineage(items), [Next]_vars
             PROVE  Lineage(items')
  OBVIOUS
<1>1. items \in Seq(Header) /\ \A s \in Spaces : mem[s].snapshots \in Seq(Entry)
  BY DEF BaseInv, DataInv, DataType, Local
<1>2. ASSUME NEW t \in Threads, CallStep(t) PROVE Lineage(items')
  <2>1. CASE SyncEnd(t)
    <3>1. Space(t) \in Spaces
      BY DEF Space, Spaces, Threads, MainThreads
    <3> QED BY <1>1, <2>1, <3>1, FlushToLineage DEF SyncEnd, Object
  <2>2. CASE ~SyncEnd(t)
    BY <1>2, <2>2 DEF CallStep, SyncCheck, Acquire, Attach, SyncItem, SyncIndex, Release, shared
  <2> QED BY <2>1, <2>2
<1>3. ASSUME NEW c \in Tracees, TraceeStep(c) PROVE Lineage(items')
  <2>1. c \in Threads /\ c \in Spaces
    BY DEF Spaces, Threads, MainThreads
  <2>2. CASE CallStep(c)
    BY <1>2, <2>1, <2>2
  <2>3. CASE CountersHeld(c)
    BY <1>1, <2>1, <2>3, FlushToLineage DEF CountersHeld
  <2>4. CASE AddWrite(c)
    BY <2>4, LineageAddWrite
  <2>5. CASE ~CallStep(c) /\ ~CountersHeld(c) /\ ~AddWrite(c)
    BY <1>3, <2>5 DEF TraceeStep, CreateInput, GetItem, PickItem, SyncCounters, NothingNew,
       FoundCoverage, AddSeen, AddPublish, CountersNull, shared
  <2> QED BY <2>2, <2>3, <2>4, <2>5
<1>4. ASSUME NEW m \in Monitors, MonitorStep(m) PROVE Lineage(items')
  <2>1. m \in Threads
    BY DEF Threads, MainThreads
  <2>2. CASE CallStep(m)
    BY <1>2, <2>1, <2>2
  <2>3. CASE UnwantedHeld(m)
    <3> DEFINE bumped == [i \in 1..Len(items) |->
                           IF i = unwanted[m]
                           THEN [items[i] EXCEPT !.mut = (@ + 1) % (MaxCount + 1)]
                           ELSE items[i]]
    <3>1. ASSUME NEW i \in 1..Len(items)
          PROVE  /\ bumped[i].parent = items[i].parent /\ bumped[i].anc = items[i].anc
                 /\ bumped[i].direct = items[i].direct /\ bumped[i].desc = items[i].desc
      <4>1. items[i] \in Header
        BY <1>1
      <4> QED BY <4>1 DEF Header
    <3>2. Len(bumped) = Len(items)
      <4>1. bumped \in [1..Len(items) -> {bumped[i] : i \in 1..Len(items)}] /\ Len(items) \in Nat
        BY <1>1
      <4> HIDE DEF bumped
      <4> QED BY <4>1, FunctionIsSeq
    <3>3. items' = bumped
      BY <2>3 DEF UnwantedHeld
    <3> HIDE DEF bumped
    <3>4. SameParents(items, bumped)
      BY <3>1, <3>2 DEF SameParents
    <3> QED BY <3>1, <3>3, <3>4, LineageSame
  <2>4. CASE ~CallStep(m) /\ ~UnwantedHeld(m)
    BY <1>4, <2>4 DEF MonitorStep, Fork, HandleException, UnwantedNull, shared
  <2> QED BY <2>2, <2>3, <2>4
<1>5. ASSUME NEW s \in Printers, StatusStep(s) PROVE Lineage(items')
  <2>1. s \in Threads
    BY DEF Threads, MainThreads
  <2> QED BY <1>2, <1>5, <2>1 DEF StatusStep, PrintStatus, PrintDecay, shared
<1>6. CASE Fault
  BY <1>6 DEF Fault, Crash, Kill, Restart, shared
<1>7. CASE UNCHANGED vars
  BY <1>7 DEF vars, shared
<1> QED BY <1>3, <1>4, <1>5, <1>6, <1>7 DEF Next

LEMMA LineageFacts == BaseInv /\ Undisturbed /\ Lineage(items) => LineageCounts
<1> SUFFICES ASSUME BaseInv, Undisturbed, Lineage(items), corpusLock = 1, NEW i \in 1..numEntries
             PROVE  /\ items[i].parent < i
                    /\ items[i].anc = Cardinality(TrueAncestors(i))
                    /\ items[i].direct = Cardinality({j \in 1..numEntries : items[j].parent = i})
                    /\ items[i].desc = Cardinality({j \in 1..numEntries : i \in TrueAncestors(j)})
  BY DEF LineageCounts
<1>1. \A c \in Tracees : pc[c] # "publish"
  BY DEF BaseInv, Locking, MutualExclusion, InSection, Threads, MainThreads
<1>2. numEntries = Len(items) /\ Rooted(items) /\ i \in 1..Len(items)
  BY <1>1 DEF Undisturbed, Lineage
<1>3. \A j \in 1..numEntries : TrueAncestors(j) = Ancestors(items, items[j].parent)
  BY <1>2, TrueAncestorsAre
<1>4. Counted(items, i)
  BY <1>2 DEF Lineage
<1>5. items[i].parent < i
  BY <1>2 DEF Rooted
<1>6. items[i].anc = Cardinality(TrueAncestors(i))
  BY <1>3, <1>4 DEF Counted
<1>7. items[i].direct = Cardinality({j \in 1..numEntries : items[j].parent = i})
  BY <1>2, <1>4 DEF Counted, Offspring
<1>8. {j \in 1..numEntries : i \in TrueAncestors(j)} = Descendants(items, i)
  BY <1>2, <1>3 DEF Descendants
<1> QED BY <1>4, <1>5, <1>6, <1>7, <1>8 DEF Counted

\* The counters that UpdateStats maintains step by step, each process walking its private
\* mirror, are exact whenever no process is inside the section: for any number of
\* processes and items, through crashes, kills and restarts, as long as no process has
\* died inside the section with an item laid down and not counted, and fork has copied
\* no half-done mirror and no object between the two stores that end SyncInner.
THEOREM LineageIsExact == Spec /\ []Undisturbed => []LineageCounts
<1>1. MirrorsSound /\ ObjectsSound /\ Undisturbed /\ Lineage(items) /\ [Next]_vars
      => Lineage(items)'
  BY LineageStep DEF Undisturbed, MirrorsSound, KeysSound, ObjectsSound, Sound
<1>2. ObjectsSound /\ Undisturbed /\ Lineage(items) => LineageCounts
  BY LineageFacts DEF Undisturbed, ObjectsSound, Sound
<1> QED
  BY <1>1, <1>2, LineageInit, MirrorsSoundInit, MirrorsSoundStep, ObjectsSoundInit,
     ObjectsSoundStep, PTL DEF Spec
=============================================================================
