----------------------------- MODULE MmapCorpus -----------------------------
(***************************************************************************)
(* The corpus that all processes of a fuzzing campaign share               *)
(* (libresmack_fuzz/src/corpora/mmap.cpp), driven as                       *)
(* libresmack_fuzz_main/src/main.cpp drives it.                            *)
(*                                                                         *)
(* The file-backed map holds a metadata block and an append-only list of   *)
(* items.  Every process keeps an MmapCorpus object, a private mirror of   *)
(* the map.  The main process has one object, used by all its monitor      *)
(* threads and by its status thread; each tracee is forked from the main   *)
(* process and starts with a copy of whatever that object holds at that    *)
(* moment.  The corpus lock is a named semaphore: it has no owner and      *)
(* survives the death of a holder.                                         *)
(*                                                                         *)
(* Item positions are the code's one-based indices; 0 is "not set".        *)
(***************************************************************************)
EXTENDS Naturals, Sequences, FiniteSets

CONSTANTS
  Main,         \* the address space of the main process
  Monitors,     \* monitor threads, one per tracer, all inside Main
  Printers,     \* the status thread of Main
  Tracees,      \* process slots for forked tracees
  Keys,         \* feedback keys (coverage hashes) a run can produce
  MaxCount,     \* the largest value of a uint64_t counter
  UninitSeq,    \* what the constructor leaves in last_updated_seq
  MaxPicks,     \* bound: calls of GetItem
  MaxCrashes,   \* bound: tracees that crash
  MaxKills,     \* bound: tracees that get a SIGKILL
  MaxRestarts   \* bound: campaigns killed and started again

ASSUME ActorsAssumption ==
  /\ Main \notin Monitors \cup Printers \cup Tracees
  /\ (Monitors \cup Printers) \cap Tracees = {}
  /\ Monitors \cap Printers = {}

ASSUME BoundsAssumption ==
  /\ MaxCount \in Nat
  /\ UninitSeq \in Nat
  /\ {MaxPicks, MaxCrashes, MaxKills, MaxRestarts} \subseteq Nat

MainThreads == Monitors \cup Printers
Threads == MainThreads \cup Tracees
Spaces  == {Main} \cup Tracees

None == "none"

\* The address space in which a thread runs.
Space(t) == IF t \in Tracees THEN t ELSE Main

VARIABLES
  \* the shared map and the semaphore
  items,        \* the CorpusItemHeaders laid out in the map, in order
  numEntries,   \* meta->num_entries: how many of them are published
  updatedSeq,   \* meta->updated_seq
  corpusLock,   \* value of the semaphore
  \* one MmapCorpus object per address space
  mem,
  \* control state of the threads
  pc, call,
  cursor, curr, \* the local variables of SyncInner: snapshot_idx, and the headers before curr
  key,          \* tracee: feedback key of the pending AddRandSnapshotIfNotSeen
  used,         \* tracee: this iteration replays a corpus item
  child,        \* monitor: the tracee it launched last
  unwanted,     \* monitor: index handed to IncUnwanted
  \* history variables: no action reads them
  torn,         \* tracee: forked while a thread of Main was inside SyncInner
  split,        \* some tracee was forked between the two stores that end SyncInner
  nPicks, nCrashes, nKills, nRestarts   \* bounded counts of GetItem and faults

shared  == <<items, numEntries, updatedSeq>>
control == <<pc, call, cursor, curr, key, used, child, unwanted>>
history == <<torn, split, nPicks, nCrashes, nKills, nRestarts>>
vars    == <<shared, corpusLock, mem, control, history>>

-----------------------------------------------------------------------------
(* Data.                                                                   *)

Counter == 0..MaxCount

\* A feedback key, or the zero that free space has in its place.
AnyKey == Keys \cup {None}

Header == [key: AnyKey, parent: Nat, mut: Counter, direct: Nat, desc: Nat, anc: Nat]

\* Free space, read as a header.
Zeros == [key |-> None, parent |-> 0, mut |-> 0, direct |-> 0, desc |-> 0, anc |-> 0]

\* The header at position i of hdrs, and hdrs with header h laid down there.
Slot(hdrs, i) == IF i \in 1..Len(hdrs) THEN hdrs[i] ELSE Zeros

Lay(hdrs, i, h) ==
  [j \in 1..(IF i > Len(hdrs) THEN i ELSE Len(hdrs)) |->
     IF j = i THEN h ELSE Slot(hdrs, j)]

Entry == [index: Nat, key: AnyKey, parent: Nat, mut: Counter, new: Counter]

\* first, attached: first_item and next_item point into the map; nextItem: how
\* many headers lie before next_item.
Local == [first: BOOLEAN, attached: BOOLEAN, snapshots: Seq(Entry),
          seenKeys: SUBSET AnyKey, nextIndex: Nat, nextItem: Nat, lastSeq: Nat, lastItem: Nat]

Blank == [first |-> FALSE, attached |-> FALSE, snapshots |-> <<>>, seenKeys |-> {},
          nextIndex |-> 0, nextItem |-> 0, lastSeq |-> UninitSeq, lastItem |-> 0]

\* The local entry SyncInner builds for the item at position i.
Mirror(hdr, i) == [index |-> i, key |-> hdr.key, parent |-> hdr.parent,
                   mut |-> hdr.mut, new |-> 0]

\* Faulty: no check for the end of the counter's range.
PlainAdd(a, b) == a + b

SatAdd(a, b) == IF MaxCount - a < b THEN MaxCount ELSE a + b

\* Faulty: writes back the local value instead of adding what is new.
FlushOverwrites(hdrs, snap) ==
  [i \in 1..Len(hdrs) |->
     IF i <= Len(snap)
     THEN [hdrs[i] EXCEPT !.mut = SatAdd(snap[i].mut, snap[i].new)]
     ELSE hdrs[i]]

\* SyncCountersInner, on the headers: the unflushed picks of snap are added.
FlushTo(hdrs, snap) ==
  [i \in 1..Len(hdrs) |->
     IF i <= Len(snap)
     THEN [hdrs[i] EXCEPT !.mut = SatAdd(hdrs[i].mut, snap[i].new)]
     ELSE hdrs[i]]

\* SyncCountersInner, on the local entries.  An entry with no item of its own
\* is paired with free space, which reads as zeros.
FlushFrom(hdrs, snap) ==
  [i \in 1..Len(snap) |->
     [snap[i] EXCEPT !.new = 0,
                     !.mut = IF i <= Len(hdrs)
                             THEN SatAdd(hdrs[i].mut, snap[i].new)
                             ELSE snap[i].new]]

\* The entries UpdateStats visits from parent p to the root, over the local
\* entries: the least set that has p and, with an entry, its parent.
Ancestors(snap, p) ==
  {a \in 1..Len(snap) :
     \A S \in SUBSET (1..Len(snap)) :
       (\A b \in {p} \cup {snap[i].parent : i \in S} : b \in 1..Len(snap) => b \in S)
       => a \in S}

\* What UpdateStats returns, the number of levels.  A self-parented entry counts
\* as one more, because the walk breaks only after having entered it again.
AncestorDepth(snap, p) ==
  Cardinality(Ancestors(snap, p))
    + Cardinality({a \in Ancestors(snap, p) : snap[a].parent = a})

\* Faulty: the new item counts only as a descendant of its parent.
CountChild(hdrs, snap, p) ==
  [i \in 1..Len(hdrs) |->
     [hdrs[i] EXCEPT !.direct = @ + (IF i = p THEN 1 ELSE 0),
                     !.desc = @ + (IF i = p THEN 1 ELSE 0)]]

\* UpdateStats on the headers.
CountOffspring(hdrs, snap, p) ==
  [i \in 1..Len(hdrs) |->
     [hdrs[i] EXCEPT
        !.direct = @ + (IF i = p THEN 1 ELSE 0),
        !.desc = @ + (IF i \in Ancestors(snap, p) THEN 1 ELSE 0)]]

\* UpdateStats on the local entries: "a new offspring was found! reset".
ResetParent(snap, p) ==
  [i \in 1..Len(snap) |-> IF i = p THEN [snap[i] EXCEPT !.mut = 0] ELSE snap[i]]

\* The object after Init: its Sync bails out when the sequence numbers agree,
\* and otherwise mirrors all published items.
InitObject ==
  IF UninitSeq = updatedSeq
  THEN Blank
  ELSE [Blank EXCEPT
          !.first = TRUE,
          !.attached = TRUE,
          !.snapshots = [i \in 1..numEntries |-> Mirror(Slot(items, i), i)],
          !.seenKeys = {Slot(items, i).key : i \in 1..numEntries},
          !.nextIndex = numEntries,
          !.nextItem = numEntries,
          !.lastSeq = updatedSeq]

-----------------------------------------------------------------------------
(* A campaign starts: a new semaphore, the map as the file has it.         *)

FreshMem == [s \in Spaces |-> IF s = Main THEN InitObject ELSE Blank]
FreshPc  == [t \in Threads |-> CASE t \in Monitors -> "spawn"
                              [] t \in Printers -> "idle"
                              [] OTHER -> "dead"]

Init ==
  /\ items = <<>> /\ numEntries = 0 /\ updatedSeq = 0
  /\ nPicks = 0 /\ nCrashes = 0 /\ nKills = 0 /\ nRestarts = 0
  /\ corpusLock = 1
  /\ mem = FreshMem
  /\ pc = FreshPc
  /\ call = [t \in Threads |-> None]
  /\ cursor = [t \in Threads |-> 0] /\ curr = [t \in Threads |-> 0]
  /\ key = [c \in Tracees |-> None]
  /\ used = [c \in Tracees |-> FALSE]
  /\ child = [m \in Monitors |-> None]
  /\ unwanted = [m \in Monitors |-> 0]
  /\ torn = [c \in Tracees |-> FALSE] /\ split = FALSE

-----------------------------------------------------------------------------
(* Calls into the object, as seen by any thread.                           *)

Goto(t, where) == pc' = [pc EXCEPT ![t] = where]

Enter(t, what, where) ==
  /\ call' = [call EXCEPT ![t] = what]
  /\ Goto(t, where)

Object(t) == mem[Space(t)]

\* Where a thread continues when its call has returned.
Return(t) ==
  CASE call[t] = "GetItem"    -> "pick"
    [] call[t] = "IncUnwanted" -> "enter"
    [] OTHER                   -> CASE t \in Monitors -> "spawn"
                                    [] t \in Printers -> "print"
                                    [] OTHER -> "loop"

\* Faulty: SeenFeedback that never knows a key.
SeenNothing(c, k) == FALSE

\* SeenFeedback asks the private set.
SeenFeedback(c, k) == k \in mem[c].seenKeys

\* Sync reads updated_seq without the lock: "nothing has been changed, bail".
SyncCheck(t) ==
  /\ pc[t] = "enter"
  /\ IF Object(t).lastSeq = updatedSeq
     THEN Enter(t, None, Return(t))
     ELSE Enter(t, "Sync", "wait")
  /\ UNCHANGED <<shared, corpusLock, mem, cursor, curr, key, used, child, unwanted, history>>

\* SyncInner up to its loop: the sequence number is taken over before any item is.
BeginMerge(t, o) ==
  /\ mem' = [mem EXCEPT ![Space(t)] = [o EXCEPT !.lastSeq = updatedSeq]]
  /\ cursor' = [cursor EXCEPT ![t] = o.nextIndex]
  /\ curr' = [curr EXCEPT ![t] = o.nextItem]
  /\ Goto(t, "sync")

\* sem_wait, and the first lines of the calls that begin with SyncInner: an
\* object that has no mirror yet gets next_item before it gets first_item.
Acquire(t) ==
  /\ pc[t] = "wait" /\ corpusLock > 0
  /\ corpusLock' = corpusLock - 1
  /\ IF call[t] \in {"SyncCounters", "IncUnwanted"}
     THEN Goto(t, "held") /\ UNCHANGED <<mem, cursor, curr>>
     ELSE IF Object(t).attached
     THEN BeginMerge(t, Object(t))
     ELSE /\ mem' = [mem EXCEPT ![Space(t)].attached = TRUE,
                                ![Space(t)].snapshots = <<>>,
                                ![Space(t)].nextIndex = 0,
                                ![Space(t)].nextItem = 0]
          /\ Goto(t, "attach")
          /\ UNCHANGED <<cursor, curr>>
  /\ UNCHANGED <<shared, call, key, used, child, unwanted, history>>

\* first_item is set, and SyncInner goes on to its loop.
Attach(t) ==
  /\ pc[t] = "attach"
  /\ BeginMerge(t, [Object(t) EXCEPT !.first = TRUE])
  /\ UNCHANGED <<shared, corpusLock, call, key, used, child, unwanted, history>>

\* Faulty: the mirrored item's key is not recorded.
SyncItemUnseen(t) ==
  /\ pc[t] = "sync" /\ cursor[t] < numEntries
  /\ mem' = [mem EXCEPT ![Space(t)].snapshots =
               Append(@, Mirror(Slot(items, curr[t] + 1), cursor[t] + 1))]
  /\ cursor' = [cursor EXCEPT ![t] = @ + 1]
  /\ curr' = [curr EXCEPT ![t] = @ + 1]
  /\ UNCHANGED <<shared, corpusLock, pc, call, key, used, child, unwanted, history>>

\* One round of SyncInner's loop: mirror the header at curr.
SyncItem(t) ==
  /\ pc[t] = "sync" /\ cursor[t] < numEntries
  /\ LET hdr == Slot(items, curr[t] + 1) IN
     mem' = [mem EXCEPT
               ![Space(t)].snapshots = Append(@, Mirror(hdr, cursor[t] + 1)),
               ![Space(t)].seenKeys = @ \cup {hdr.key}]
  /\ cursor' = [cursor EXCEPT ![t] = @ + 1]
  /\ curr' = [curr EXCEPT ![t] = @ + 1]
  /\ UNCHANGED <<shared, corpusLock, pc, call, key, used, child, unwanted, history>>

\* The end of the loop: only now next_item_index moves, and next_item not yet.
SyncIndex(t) ==
  /\ pc[t] = "sync" /\ cursor[t] >= numEntries
  /\ mem' = [mem EXCEPT ![Space(t)].nextIndex = cursor[t]]
  /\ Goto(t, "pointer")
  /\ UNCHANGED <<shared, corpusLock, call, cursor, curr, key, used, child, unwanted, history>>

\* SyncCountersInner walks the headers from first_item.
NoHeaders(o) == ~o.first /\ o.snapshots # <<>>

\* The end of SyncInner: next_item moves too; then the counters.
SyncEnd(t) ==
  /\ pc[t] = "pointer" /\ ~NoHeaders(Object(t))
  /\ mem' = [mem EXCEPT
               ![Space(t)].nextItem = curr[t],
               ![Space(t)].snapshots = FlushFrom(items, @)]
  /\ items' = FlushTo(items, Object(t).snapshots)
  /\ cursor' = [cursor EXCEPT ![t] = 0]
  /\ curr' = [curr EXCEPT ![t] = 0]
  /\ Goto(t, IF call[t] = "Add" THEN "held" ELSE "unlock")
  /\ UNCHANGED <<numEntries, updatedSeq, corpusLock, call, key, used, child, unwanted, history>>

\* sem_post at the end of the scope, and the return of the call.
Release(t) ==
  /\ pc[t] = "unlock"
  /\ corpusLock' = corpusLock + 1
  /\ Goto(t, Return(t))
  /\ call' = [call EXCEPT ![t] = IF @ = "IncUnwanted" THEN "Sync" ELSE None]
  /\ UNCHANGED <<shared, mem, cursor, curr, key, used, child, unwanted, history>>

-----------------------------------------------------------------------------
(* A tracee: FuzzLoop and the calls it makes.                              *)

\* Generate from scratch: nothing of the corpus is used.
CreateInput(c) ==
  /\ pc[c] = "loop"
  /\ used' = [used EXCEPT ![c] = FALSE]
  /\ Enter(c, None, "target")
  /\ UNCHANGED <<shared, corpusLock, mem, cursor, curr, key, child, unwanted, history>>

\* GetItem, up to the unlocked check of its Sync.
GetItem(c) ==
  /\ pc[c] = "loop"
  /\ Len(mem[c].snapshots) > 0
  /\ nPicks < MaxPicks
  /\ nPicks' = nPicks + 1
  /\ Enter(c, "GetItem", IF mem[c].lastSeq = updatedSeq THEN "pick" ELSE "wait")
  /\ UNCHANGED <<shared, corpusLock, mem, cursor, curr, key, used, child, unwanted, torn, split,
                 nCrashes, nKills, nRestarts>>

\* The rest of GetItem: whatever the strategies select, it is a local entry.
PickItem(c) ==
  /\ pc[c] = "pick"
  /\ \E i \in 1..Len(mem[c].snapshots) :
       mem' = [mem EXCEPT ![c].lastItem = i,
                          ![c].snapshots[i].new = (@ + 1) % (MaxCount + 1)]
  /\ used' = [used EXCEPT ![c] = TRUE]
  /\ Enter(c, None, "target")
  /\ UNCHANGED <<shared, corpusLock, cursor, curr, key, child, unwanted, history>>

\* The target ran and the iteration adds nothing: no new coverage, or not valid.
NothingNew(c) ==
  /\ pc[c] = "target"
  /\ Goto(c, "loop")
  /\ UNCHANGED <<shared, corpusLock, mem, call, cursor, curr, key, used, child, unwanted,
                 history>>

\* The iteration has new coverage k: AddRandSnapshotIfNotSeen, up to its
\* unlocked SeenFeedback.
FoundCoverage(c, k) ==
  /\ pc[c] = "target"
  /\ IF SeenFeedback(c, k)
     THEN /\ Goto(c, "loop")
          /\ UNCHANGED <<call, key>>
     ELSE /\ Enter(c, "Add", "wait")
          /\ key' = [key EXCEPT ![c] = k]
  /\ UNCHANGED <<shared, corpusLock, mem, cursor, curr, used, child, unwanted, history>>

\* Faulty: returns without leaving the section.
AddSeenKeepsLock(c) ==
  /\ pc[c] = "held" /\ call[c] = "Add"
  /\ SeenFeedback(c, key[c])
  /\ Enter(c, None, "loop")
  /\ UNCHANGED <<shared, corpusLock, mem, cursor, curr, key, used, child, unwanted, history>>

\* SeenFeedback again, now synchronised and under the lock.
AddSeen(c) ==
  /\ pc[c] = "held" /\ call[c] = "Add"
  /\ SeenFeedback(c, key[c])
  /\ Goto(c, "unlock")
  /\ UNCHANGED <<shared, corpusLock, mem, call, cursor, curr, key, used, child, unwanted,
                 history>>

\* Faulty: counts the item before it is there.
AddWriteEarly(c) ==
  /\ pc[c] = "held" /\ call[c] = "Add"
  /\ ~SeenFeedback(c, key[c])
  /\ numEntries' = numEntries + 1
  /\ Goto(c, "publish")
  /\ UNCHANGED <<items, updatedSeq, corpusLock, mem, call, cursor, curr, key, used, child,
                 unwanted, history>>

\* AddRandSnapshotInner up to line 148: the local entry, UpdateStats along the
\* ancestors, and the header laid down at next_item.
AddWrite(c) ==
  /\ pc[c] = "held" /\ call[c] = "Add"
  /\ ~SeenFeedback(c, key[c])
  /\ LET snap == mem[c].snapshots
         p == IF used[c] THEN mem[c].lastItem ELSE 0
         entry == [index |-> Len(snap) + 1, key |-> key[c], parent |-> p,
                   mut |-> 0, new |-> 0]
         header == [key |-> key[c], parent |-> p, mut |-> 0, direct |-> 0, desc |-> 0,
                    anc |-> AncestorDepth(snap, p)]
     IN  /\ mem' = [mem EXCEPT ![c].snapshots = Append(ResetParent(snap, p), entry)]
         /\ items' = Lay(CountOffspring(items, snap, p), mem[c].nextItem + 1, header)
  /\ Goto(c, "publish")
  /\ UNCHANGED <<numEntries, updatedSeq, corpusLock, call, cursor, curr, key, used, child,
                 unwanted, history>>

\* Faulty: next_item_index does not move past the process's own item.
AddPublishStays(c) ==
  /\ pc[c] = "publish"
  /\ updatedSeq' = updatedSeq + 1
  /\ numEntries' = numEntries + 1
  /\ mem' = [mem EXCEPT ![c].lastSeq = updatedSeq + 1,
                        ![c].nextItem = @ + 1,
                        ![c].seenKeys = @ \cup {key[c]}]
  /\ Goto(c, "unlock")
  /\ UNCHANGED <<items, corpusLock, call, cursor, curr, key, used, child, unwanted, history>>

\* Faulty: the item is published, but updated_seq says that nothing happened.
AddPublishSilent(c) ==
  /\ pc[c] = "publish"
  /\ numEntries' = numEntries + 1
  /\ mem' = [mem EXCEPT ![c].nextIndex = numEntries + 1,
                        ![c].nextItem = @ + 1,
                        ![c].seenKeys = @ \cup {key[c]}]
  /\ Goto(c, "unlock")
  /\ UNCHANGED <<items, updatedSeq, corpusLock, call, cursor, curr, key, used, child, unwanted,
                 history>>

\* The rest of AddRandSnapshotInner: the two shared counters move last.
AddPublish(c) ==
  /\ pc[c] = "publish"
  /\ updatedSeq' = updatedSeq + 1
  /\ numEntries' = numEntries + 1
  /\ mem' = [mem EXCEPT ![c].lastSeq = updatedSeq + 1,
                        ![c].nextIndex = numEntries + 1,
                        ![c].nextItem = @ + 1,
                        ![c].seenKeys = @ \cup {key[c]}]
  /\ Goto(c, "unlock")
  /\ UNCHANGED <<items, corpusLock, call, cursor, curr, key, used, child, unwanted, history>>

\* SyncStats at the top of an iteration, up to the unlocked read of num_entries
\* in SyncCounters.
SyncCounters(c) ==
  /\ pc[c] = "loop"
  /\ IF Len(mem[c].snapshots) # numEntries
     THEN Enter(c, "Sync", "enter")
     ELSE Enter(c, "SyncCounters", "wait")
  /\ UNCHANGED <<shared, corpusLock, mem, cursor, curr, key, used, child, unwanted, history>>

\* SyncCounters under the lock.
CountersHeld(c) ==
  /\ pc[c] = "held" /\ call[c] = "SyncCounters" /\ ~NoHeaders(mem[c])
  /\ items' = FlushTo(items, mem[c].snapshots)
  /\ mem' = [mem EXCEPT ![c].snapshots = FlushFrom(items, @)]
  /\ Goto(c, "unlock")
  /\ UNCHANGED <<numEntries, updatedSeq, corpusLock, call, cursor, curr, key, used, child,
                 unwanted, history>>

\* A tracee that was forked between the stores of next_item and first_item stops
\* in SyncCountersInner, and keeps the lock.
CountersNull(c) ==
  /\ pc[c] = "pointer" \/ (pc[c] = "held" /\ call[c] = "SyncCounters")
  /\ NoHeaders(mem[c])
  /\ Goto(c, "crashed")
  /\ nCrashes' = nCrashes + 1
  /\ UNCHANGED <<shared, corpusLock, mem, call, cursor, curr, key, used, child, unwanted, torn,
                 split, nPicks, nKills, nRestarts>>

\* The target receives a fatal signal and the tracee stops.
Crash(c) ==
  /\ pc[c] = "target" /\ nCrashes < MaxCrashes
  /\ Goto(c, "crashed")
  /\ nCrashes' = nCrashes + 1
  /\ UNCHANGED <<shared, corpusLock, mem, call, cursor, curr, key, used, child, unwanted, torn,
                 split, nPicks, nKills, nRestarts>>

-----------------------------------------------------------------------------
(* A monitor thread of the main process, and the faults.                   *)

\* ForkLauncher::Spawn: the new process owns a copy of the object as it is now,
\* even if another thread is inside SyncInner.  FuzzLoop begins with Sync.
Fork(m, c) ==
  /\ pc[m] = "spawn" /\ pc[c] = "dead"
  /\ mem' = [mem EXCEPT ![c] = mem[Main]]
  /\ pc' = [pc EXCEPT ![m] = "watch", ![c] = "enter"]
  /\ call' = [call EXCEPT ![c] = "Sync"]
  /\ child' = [child EXCEPT ![m] = c]
  /\ torn' = [torn EXCEPT ![c] = \E t \in MainThreads : pc[t] \in {"attach", "sync", "pointer"}]
  /\ split' = (split \/ mem[Main].nextIndex # mem[Main].nextItem)
  /\ UNCHANGED <<shared, corpusLock, cursor, curr, key, used, unwanted, nPicks, nCrashes, nKills,
                 nRestarts>>

\* The process of slot c is gone, with everything it had not flushed.
Reap(m, c) ==
  /\ mem' = [mem EXCEPT ![c] = Blank]
  /\ cursor' = [cursor EXCEPT ![c] = 0] /\ curr' = [curr EXCEPT ![c] = 0]
  /\ key' = [key EXCEPT ![c] = None]
  /\ used' = [used EXCEPT ![c] = FALSE]
  /\ child' = [child EXCEPT ![m] = None]
  /\ torn' = [torn EXCEPT ![c] = FALSE]

\* HandleException up to its first lock: IncUnwanted returns at once for index
\* 0, and the second index is always 0.
HandleException(m, c) ==
  /\ pc[m] = "watch" /\ child[m] = c /\ pc[c] = "crashed"
  /\ LET idx == IF used[c] THEN mem[c].lastItem ELSE 0 IN
     /\ unwanted' = [unwanted EXCEPT ![m] = idx]
     /\ pc' = [pc EXCEPT ![c] = "dead", ![m] = IF idx = 0 THEN "enter" ELSE "wait"]
     /\ call' = [call EXCEPT ![c] = None, ![m] = IF idx = 0 THEN "Sync" ELSE "IncUnwanted"]
  /\ Reap(m, c)
  /\ UNCHANGED <<shared, corpusLock, split, nPicks, nCrashes, nKills, nRestarts>>

\* IncUnwanted under the lock.  It does not synchronise, yet takes over the
\* sequence number it has just produced.
UnwantedHeld(m) ==
  /\ pc[m] = "held" /\ call[m] = "IncUnwanted"
  /\ mem[Main].first
  /\ items' = [i \in 1..Len(items) |->
                 IF i = unwanted[m]
                 THEN [items[i] EXCEPT !.mut = (@ + 1) % (MaxCount + 1)]
                 ELSE items[i]]
  /\ updatedSeq' = updatedSeq + 1
  /\ mem' = [mem EXCEPT ![Main].lastSeq = updatedSeq + 1]
  /\ unwanted' = [unwanted EXCEPT ![m] = 0]
  /\ Goto(m, "unlock")
  /\ UNCHANGED <<numEntries, corpusLock, call, cursor, curr, key, used, child, history>>

\* The main process reads through a first_item that is still NULL.
Segv == pc' = [t \in Threads |-> IF t \in MainThreads THEN "segv" ELSE pc[t]]

\* IncUnwanted walks the headers from first_item.
UnwantedNull(m) ==
  /\ pc[m] = "held" /\ call[m] = "IncUnwanted"
  /\ ~mem[Main].first
  /\ Segv
  /\ UNCHANGED <<shared, corpusLock, mem, call, cursor, curr, key, used, child, unwanted,
                 history>>

\* Faulty: posts the semaphore for the killed tracee without knowing that it held it.
KillPosts(m, c) ==
  /\ pc[m] = "watch" /\ child[m] = c /\ pc[c] \notin {"dead", "crashed"}
  /\ nKills < MaxKills
  /\ nKills' = nKills + 1
  /\ corpusLock' = corpusLock + 1
  /\ pc' = [pc EXCEPT ![c] = "dead", ![m] = "spawn"]
  /\ call' = [call EXCEPT ![c] = None]
  /\ Reap(m, c)
  /\ UNCHANGED <<shared, unwanted, split, nPicks, nCrashes, nRestarts>>

\* PrintStatus begins with Sync.
PrintStatus(s) ==
  /\ pc[s] = "idle"
  /\ Enter(s, "Sync", "enter")
  /\ UNCHANGED <<shared, corpusLock, mem, cursor, curr, key, used, child, unwanted, history>>

\* The rest of PrintStatus: GetDecayPercent walks num_entries headers from
\* first_item, without the lock.
PrintDecay(s) ==
  /\ pc[s] = "print"
  /\ IF numEntries > 0 /\ ~mem[Main].first THEN Segv ELSE Goto(s, "idle")
  /\ UNCHANGED <<shared, corpusLock, mem, call, cursor, curr, key, used, child, unwanted,
                 history>>

\* SIGKILL, from the timeout thread or from outside, hits the tracee wherever it
\* is; the monitor reaps it and launches the next one.  A semaphore it holds stays
\* taken.
Kill(m, c) ==
  /\ pc[m] = "watch" /\ child[m] = c /\ pc[c] \notin {"dead", "crashed"}
  /\ nKills < MaxKills
  /\ nKills' = nKills + 1
  /\ pc' = [pc EXCEPT ![c] = "dead", ![m] = "spawn"]
  /\ call' = [call EXCEPT ![c] = None]
  /\ Reap(m, c)
  /\ UNCHANGED <<shared, corpusLock, unwanted, split, nPicks, nCrashes, nRestarts>>

\* Faulty: the constructor writes a new metadata block over an existing file's.
RestartForgets ==
  /\ nRestarts < MaxRestarts
  /\ nRestarts' = nRestarts + 1
  /\ corpusLock' = 1
  /\ items' = <<>> /\ numEntries' = 0 /\ updatedSeq' = 0
  /\ mem' = [s \in Spaces |-> Blank]
  /\ pc' = FreshPc
  /\ call' = [t \in Threads |-> None]
  /\ cursor' = [t \in Threads |-> 0] /\ curr' = [t \in Threads |-> 0]
  /\ key' = [c \in Tracees |-> None]
  /\ used' = [c \in Tracees |-> FALSE]
  /\ child' = [m \in Monitors |-> None]
  /\ unwanted' = [m \in Monitors |-> 0]
  /\ torn' = [c \in Tracees |-> FALSE]
  /\ UNCHANGED <<split, nPicks, nCrashes, nKills>>

\* All processes of the campaign are killed and it is started on the same
\* state file: the map survives, the semaphore is unlinked and made anew.
Restart ==
  /\ nRestarts < MaxRestarts
  /\ nRestarts' = nRestarts + 1
  /\ corpusLock' = 1
  /\ mem' = FreshMem
  /\ pc' = FreshPc
  /\ call' = [t \in Threads |-> None]
  /\ cursor' = [t \in Threads |-> 0] /\ curr' = [t \in Threads |-> 0]
  /\ key' = [c \in Tracees |-> None]
  /\ used' = [c \in Tracees |-> FALSE]
  /\ child' = [m \in Monitors |-> None]
  /\ unwanted' = [m \in Monitors |-> 0]
  /\ torn' = [c \in Tracees |-> FALSE]
  /\ UNCHANGED <<shared, split, nPicks, nCrashes, nKills>>

-----------------------------------------------------------------------------

CallStep(t) ==
  \/ SyncCheck(t) \/ Acquire(t) \/ Attach(t)
  \/ SyncItem(t) \/ SyncIndex(t) \/ SyncEnd(t) \/ Release(t)

TraceeStep(c) ==
  \/ CallStep(c)
  \/ CreateInput(c) \/ GetItem(c) \/ PickItem(c) \/ SyncCounters(c)
  \/ NothingNew(c) \/ \E k \in Keys : FoundCoverage(c, k)
  \/ AddSeen(c) \/ AddWrite(c) \/ AddPublish(c)
  \/ CountersHeld(c) \/ CountersNull(c)

MonitorStep(m) ==
  \/ CallStep(m)
  \/ \E c \in Tracees : Fork(m, c) \/ HandleException(m, c)
  \/ UnwantedHeld(m) \/ UnwantedNull(m)

StatusStep(s) == CallStep(s) \/ PrintStatus(s) \/ PrintDecay(s)

Fault ==
  \/ \E c \in Tracees : Crash(c)
  \/ \E m \in Monitors, c \in Tracees : Kill(m, c)
  \/ Restart

Next ==
  \/ \E c \in Tracees : TraceeStep(c)
  \/ \E m \in Monitors : MonitorStep(m)
  \/ \E s \in Printers : StatusStep(s)
  \/ Fault

Spec == Init /\ [][Next]_vars

\* The operating system schedules every thread that can run, and sem_wait does
\* not pass over the same waiter for ever.
Fairness ==
  /\ \A c \in Tracees : WF_vars(TraceeStep(c)) /\ SF_vars(Acquire(c))
  /\ \A m \in Monitors : WF_vars(MonitorStep(m)) /\ SF_vars(Acquire(m))
  /\ \A s \in Printers : WF_vars(StatusStep(s)) /\ SF_vars(Acquire(s))

FairSpec == Spec /\ Fairness

-----------------------------------------------------------------------------
(* Properties.                                                             *)

Places == {"spawn", "watch", "idle", "print", "segv", "dead", "loop", "target", "pick", "crashed",
           "enter", "wait", "attach", "sync", "pointer", "held", "publish", "unlock"}

Calls == {None, "Sync", "GetItem", "SyncCounters", "Add", "IncUnwanted"}

\* The values the variables of the corpus and of its callers can take.
TypeOK ==
  /\ items \in Seq(Header) /\ numEntries \in Nat /\ updatedSeq \in Nat
  /\ corpusLock \in Nat
  /\ mem \in [Spaces -> Local]
  /\ pc \in [Threads -> Places]
  /\ call \in [Threads -> Calls]
  /\ cursor \in [Threads -> Nat] /\ curr \in [Threads -> Nat]
  /\ key \in [Tracees -> Keys \cup {None}]
  /\ used \in [Tracees -> BOOLEAN]
  /\ child \in [Monitors -> Tracees \cup {None}]
  /\ unwanted \in [Monitors -> Nat]
  /\ torn \in [Tracees -> BOOLEAN] /\ split \in BOOLEAN
  /\ nPicks \in Nat /\ nCrashes \in Nat /\ nKills \in Nat /\ nRestarts \in Nat

InSection(t) == pc[t] \in {"attach", "sync", "pointer", "held", "publish", "unlock"}

\* The semaphore admits one thread at a time to the map, whatever is killed and
\* whenever the campaign is restarted (scoped_lock on corpus_lock in mmap.cpp).
MutualExclusion ==
  /\ corpusLock \in {0, 1}
  /\ \A t \in Threads : InSection(t) =>
       /\ corpusLock = 0
       /\ \A u \in Threads : InSection(u) => u = t

\* No feedback key is published twice, although SeenFeedback is first asked
\* without the lock and every process asks a private set
\* (AddRandSnapshotIfNotSeen), as long as no tracee was forked between the two
\* stores that end SyncInner: such a tracee never learns the keys it skipped.
UniqueFeedbackKeys ==
  ~split => \A i, j \in 1..numEntries : items[i].key = items[j].key => i = j

\* num_entries never runs ahead of the headers: a reader that takes no lock
\* (GetDecayPercent), or the next campaign on the same file, finds a complete
\* header for every entry it counts, at most one header being laid down behind
\* (until a tracee forked between the stores that end SyncInner adds an item).
PublishedIsWritten ==
  ~split =>
    /\ numEntries <= Len(items)
    /\ Len(items) <= numEntries + 1

\* What a process has taken over from the map it has recorded in seen_keys, and
\* it never believes to have more entries than there are (unless fork copied an
\* object between the stores that end SyncInner).
SeenIsMirrored ==
  ~split => \A s \in Spaces :
    /\ mem[s].nextIndex <= numEntries
    /\ \A i \in 1..mem[s].nextIndex : items[i].key \in mem[s].seenKeys

Whole(s) == s \in Tracees => ~torn[s]

\* Every private mirror is, position by position, a prefix of the published
\* items, however often it was copied by fork (an AddWrite in progress is ahead
\* by its own entry), unless the copy was taken in the middle of SyncInner, or
\* any copy between the two stores at its end: that one's next item overwrites a
\* header that the others have mirrored.
LocalMirror ==
  ~split => \A s \in Spaces : Whole(s) => LET snap == mem[s].snapshots IN
    /\ Len(snap) <= Len(items)
    /\ \A i \in 1..Len(snap) :
         /\ snap[i].index = i
         /\ snap[i].key = items[i].key
         /\ snap[i].parent = items[i].parent

\* A process that is about to lay down an item does so behind the published ones
\* (mmap.cpp:152, next_item "gets incremented to point at the "next" empty spot").
NextItemIsEmpty ==
  \A c \in Tracees :
    pc[c] = "held" /\ call[c] = "Add" => mem[c].nextItem >= numEntries

\* An entry's index is its position in the process's own list
\* (test_corpus_mmap.cpp:226, "EXPECT_EQ(entry->index, i)").
IndexIsPosition ==
  \A s \in Spaces : \A i \in 1..Len(mem[s].snapshots) : mem[s].snapshots[i].index = i

\* A process that is not inside the section and whose sequence number is the
\* map's has every entry of the map: bailing out of Sync loses nothing
\* (mmap.cpp:158, "nothing has been changed, bail").
SyncedMeansComplete ==
  \A t \in Threads :
    (/\ pc[t] \notin {"dead", "segv"} /\ Whole(Space(t))
     /\ Object(t).lastSeq = updatedSeq
     /\ \A u \in Threads : InSection(u) => Space(u) # Space(t))
    => Object(t).nextIndex = numEntries

-----------------------------------------------------------------------------
(* Lineage.                                                                *)

\* The ancestors of published item i, by the parents in the map.
TrueAncestors(i) ==
  LET up[n \in 0..numEntries] ==
        IF n = 0 THEN items[i].parent
        ELSE IF up[n-1] = 0 THEN 0 ELSE items[up[n-1]].parent
  IN  {up[n] : n \in 0..numEntries} \ {0}

\* Whenever no process is inside the section, parents precede their offspring, and the
\* three counters that UpdateStats maintains incrementally, walking a private mirror,
\* are the counts the parents imply, unless fork copied a half-done mirror or a process
\* died between laying an item down and counting it.
LineageCounts ==
  ~split /\ corpusLock = 1 /\ (\A c \in Tracees : ~torn[c]) =>
    \A i \in 1..numEntries :
      /\ items[i].parent < i
      /\ items[i].anc = Cardinality(TrueAncestors(i))
      /\ items[i].direct = Cardinality({j \in 1..numEntries : items[j].parent = i})
      /\ items[i].desc = Cardinality({j \in 1..numEntries : i \in TrueAncestors(j)})

-----------------------------------------------------------------------------
(* Picks.                                                                  *)

\* Picks of item i: those in its header and those still held by processes, each
\* held pick counted once.
Picks(i) ==
  items[i].mut
    + Cardinality({h \in Spaces \X (1..MaxCount) :
                     LET snap == mem[h[1]].snapshots IN i <= Len(snap) /\ h[2] <= snap[i].new})

\* No process makes a pick of an item of which it holds as many unflushed picks as
\* a uint64_t can count.
NoneAtLimit ==
  \A c \in Tracees : pc[c] = "pick" =>
    \A i \in 1..Len(mem[c].snapshots) : mem[c].snapshots[i].new < MaxCount

\* While no process dies, no header is overwritten (see LocalMirror) and no local
\* counter wraps, no step loses a pick that a process has counted: concurrent
\* flushes of SyncCountersInner add up, until the header's counter is saturated.
PicksConserved ==
  [][~split' /\ NoneAtLimit => \A i \in 1..numEntries :
       Picks(i)' >= IF Picks(i) < MaxCount THEN Picks(i) ELSE MaxCount]_vars

-----------------------------------------------------------------------------
(* Implementation of the abstract corpus.                                  *)

PublishedKeys == [i \in 1..numEntries |-> Slot(items, i).key]

Abstract == INSTANCE FeedbackCorpus WITH corpus <- PublishedKeys, spoiled <- split

\* The published keys evolve as the abstract corpus allows: append-only, one new
\* key at a time, through crashes, kills and restarts, until a tracee is forked
\* between the two stores that end SyncInner.
ImplementsFeedbackCorpus == Abstract!Spec
=============================================================================
