----------------------------- MODULE PagerProofs -----------------------------
(***************************************************************************)
(* Paging implements memory, for any number of processes, address spaces,   *)
(* pages and frames, until a transfer with a flash device fails or a page   *)
(* that is in memory is read again.                                         *)
(***************************************************************************)
EXTENDS Pager, TLAPS

\* Where a client has the mutex.
Inside == {"choose", "unmap", "write", "read", "update", "leave", "trap"}

\* Where the frame it has chosen is in its hands.
Working == {"write", "read", "update"}
Taken(f) == \E t \in Client : pc[t] \in Working /\ frame[t] = f

\* Where the missing page is in the saved state, and where it is in page.
Faulting == {"fault", "known", "asking", "choose"}
Holding  == {"unmap"} \cup Working

\* Mutual exclusion, and what the pager works on.
PlaceInv ==
  /\ \A t \in Client : pc[t] \in Inside => st[t] = "in"
  /\ \A t, u \in Client : st[t] = "in" /\ st[u] = "in" => t = u
  /\ \A t \in Client :
       /\ pc[t] \in Holding => frame[t] \in Frame /\ Mine(t, page[t]) \in Key
       /\ pc[t] \in Faulting => Mine(t, sup_exceptState[asid[t]]) \in Key

TlbInv == \A k \in Key : tlb[k] # NULL => tlb[k] = sup_privatePgTbl[k]

\* A page is in the frame that is assigned to it, unless somebody works there.
PoolInv ==
  \A f \in Frame :
    swap_pool[f] # NULL /\ ~Taken(f) => /\ sup_privatePgTbl[swap_pool[f]].valid
                                        /\ sup_privatePgTbl[swap_pool[f]].frame = f

\* A valid page is in a frame that is assigned to it, and nobody works there.
TableInv ==
  \A k \in Key :
    sup_privatePgTbl[k].valid => /\ sup_privatePgTbl[k].frame \in Frame
                                 /\ swap_pool[sup_privatePgTbl[k].frame] = k
                                 /\ ~Taken(sup_privatePgTbl[k].frame)

\* What a client that works on a frame knows of it.  Of the page it misses it
\* knows that it is not valid only when it has read it.
WorkInv ==
  \A t \in Client :
    /\ pc[t] \in {"unmap", "write"} => swap_pool[frame[t]] # NULL
    /\ pc[t] \in Working /\ swap_pool[frame[t]] # NULL =>
         ~sup_privatePgTbl[swap_pool[frame[t]]].valid
    /\ pc[t] = "write" => sup_privatePgTbl[swap_pool[frame[t]]].frame = frame[t]
    /\ pc[t] = "update" => /\ ram[frame[t]] = flash[Mine(t, page[t])]
                           /\ ~sup_privatePgTbl[Mine(t, page[t])].valid

Settled == PoolInv /\ TableInv /\ WorkInv

\* A valid page is in the frame that is assigned to it, and in no other.
Tidy ==
  /\ \A k \in Key : sup_privatePgTbl[k].valid => swap_pool[sup_privatePgTbl[k].frame] = k
  /\ \A f, g \in Frame : swap_pool[f] = swap_pool[g] /\ swap_pool[f] # NULL => f = g

\* While no two clients of an address space meet in the pager, the page a client
\* misses stays missing, so that what it reads is not in memory.
FaultInv ==
  /\ \A t, u \in Client :
       asid[t] = asid[u] /\ pc[t] # "user" /\ pc[u] # "user" => t = u
  /\ \A t \in Client :
       /\ pc[t] \in Faulting =>
            ~sup_privatePgTbl[Mine(t, sup_exceptState[asid[t]])].valid
       /\ pc[t] \in Holding => ~sup_privatePgTbl[Mine(t, page[t])].valid
  /\ ~doubled

PagerInv ==
  /\ PagerTypeOK /\ PlaceInv /\ TlbInv
  /\ ~Trapped /\ Followed => Settled
  /\ ~Trapped /\ ~doubled => Tidy
  /\ ~Trapped /\ ~overlap => FaultInv

\* What a client does outside the pager.
User(t) ==
  \E p \in Page : \/ uTLB_RefillHandler(t, p) \/ PageFault(t, p) \/ Load(t, p)
                  \/ \E v \in Val : Store(t, p, v)
-----------------------------------------------------------------------------
\* A step is one of the pager, or one outside it.
LEMMA Steps == PagerNext => Followed /\ \E t \in Client : User(t) \/ pager(t)
BY DEF PagerNext, Unseen, Program, User

\* NULL is no page, no frame and no entry.
LEMMA NullApart == NULL \notin Key /\ NULL \notin Frame /\ NULL \notin Page /\ NULL \notin Pte
<1>1. NULL \notin Key /\ NULL \notin Nat
  BY PagerAssumption
<1>2. NULL \notin Frame
  BY <1>1, PagerAssumption DEF Frame
<1>3. NULL \notin Page
  BY <1>1, PagerAssumption DEF Page
<1>4. ASSUME NULL \in Pte PROVE FALSE
  <2>1. Pte \subseteq [valid : BOOLEAN, frame : Nat \cup {NULL}]
    BY PagerAssumption DEF Pte, Frame
  <2>2. QED
    BY <1>4, <2>1, PagerAssumption
<1>5. QED
  BY <1>1, <1>2, <1>3, <1>4

\* The number of a page is one.
LEMMA KeyParts ==
  ASSUME NEW t \in Client, NEW p, Mine(t, p) \in Key
  PROVE  p \in Page
BY DEF Page, Mine

\* The entry of a page table that the pager writes.
LEMMA PteOf ==
  ASSUME NEW b \in BOOLEAN, NEW f \in Frame
  PROVE  [valid |-> b, frame |-> f] \in Pte
BY DEF Pte

\* vmSupport.c: every step of the pager leaves its data well formed.
LEMMA TypeStep ==
  PagerTypeOK /\ PlaceInv /\ [PagerNext]_pagerVars => PagerTypeOK'
<1> SUFFICES ASSUME PagerTypeOK, PlaceInv, [PagerNext]_pagerVars
             PROVE  PagerTypeOK'
  OBVIOUS
<1> USE DEF PagerTypeOK
<1>1. CASE UNCHANGED pagerVars
  BY <1>1 DEF pagerVars, tables, contents, support, clients
<1>2. ASSUME NEW t \in Client, User(t)
      PROVE  PagerTypeOK'
  <2> PICK p \in Page : \/ uTLB_RefillHandler(t, p) \/ PageFault(t, p) \/ Load(t, p)
                        \/ \E v \in Val : Store(t, p, v)
    BY <1>2 DEF User
  <2>1. CASE uTLB_RefillHandler(t, p)
    <3> DEFINE k == Mine(t, p)
    <3>1. PICK lost \in Key \cup {NULL} :
            tlb' = [l \in Key |-> IF l = k THEN sup_privatePgTbl[k]
                                  ELSE IF l = lost THEN NULL ELSE tlb[l]]
      BY <2>1 DEF uTLB_RefillHandler
    <3>2. k \in Key
      BY <2>1 DEF uTLB_RefillHandler
    <3> HIDE DEF k
    <3>3. tlb' \in [Key -> Pte \cup {NULL}]
      BY <3>1, <3>2
    <3>4. QED
      BY <2>1, <3>3 DEF uTLB_RefillHandler, contents, support, clients
  <2>2. CASE PageFault(t, p)
    BY <2>2, PagerAssumption DEF PageFault, Moves, tables, contents, ClientAt
  <2>3. CASE Load(t, p)
    BY <2>3 DEF Load, tables, contents, support, clients
  <2>4. ASSUME NEW v \in Val, Store(t, p, v) PROVE PagerTypeOK'
    BY <2>4 DEF Store, tables, support, clients
  <2>5. QED
    BY <2>1, <2>2, <2>3, <2>4
<1>3. ASSUME NEW t \in Client, pager(t)
      PROVE  PagerTypeOK'
  <2>1. CASE GetSupport(t)
    BY <2>1, PagerAssumption DEF GetSupport, Moves, tables, contents, ClientAt
  <2>2. CASE FollowsNull(t)
    BY <2>2 DEF FollowsNull, tables, contents, support, ClientAt
  <2>3. CASE AskSwapPool(t)
    BY <2>3 DEF AskSwapPool, Moves, Ask, tables, contents, support, ClientAt
  <2>4. CASE EnterSwapPool(t)
    BY <2>4 DEF EnterSwapPool, Moves, Enter, tables, contents, support, ClientAt
  <2>5. CASE ChooseFrame(t)
    <3>1. PICK f \in Frame :
            /\ replacementAlgorithm(f)
            /\ Moves(t, "choose", IF swap_pool[f] = NULL THEN "read" ELSE "unmap")
            /\ frame' = [frame EXCEPT ![t] = f]
      BY <2>5 DEF ChooseFrame
    <3>2. next' \in Frame
      BY <3>1, PagerAssumption DEF replacementAlgorithm, Frame
    <3>3. page' \in [Client -> Page \cup {NULL}]
      BY <2>5, PagerAssumption DEF ChooseFrame
    <3>4. QED
      BY <2>5, <3>1, <3>2, <3>3 DEF ChooseFrame, Moves, tables, contents, support,
        ClientAt
  <2>6. CASE UnmapVictim(t)
    <3> DEFINE k == swap_pool[frame[t]]
               e == [sup_privatePgTbl[k] EXCEPT !.valid = ~@]
    <3>1. frame[t] \in Frame
      BY <2>6 DEF UnmapVictim, Moves, PlaceInv, Holding
    <3>2. k \in Key => e \in Pte
      BY DEF Pte
    <3>3. /\ pc' = [pc EXCEPT ![t] = "write"]
          /\ sup_privatePgTbl' = [sup_privatePgTbl EXCEPT ![k] = e]
          /\ tlb' = [tlb EXCEPT ![k] = IF tlb[k] = NULL THEN NULL ELSE e]
          /\ UNCHANGED <<st, swap_pool, next, contents, support, page, frame,
                         overlap, doubled>>
      BY <2>6 DEF UnmapVictim, Moves, Probe
    <3> HIDE DEF k, e
    <3>4. sup_privatePgTbl' \in [Key -> Pte] /\ tlb' \in [Key -> Pte \cup {NULL}]
      BY <3>2, <3>3
    <3>5. QED
      BY <3>3, <3>4 DEF contents, support, ClientAt
  <2>7. CASE writeBackingStore(t)
    <3>1. frame[t] \in Frame
      BY <2>7 DEF writeBackingStore, Moves, PlaceInv, Holding, Working
    <3>2. \E to \in ClientAt : pc' = [pc EXCEPT ![t] = to]
      BY <2>7 DEF writeBackingStore, Moves, ClientAt
    <3>3. flash' \in [Key -> Val]
      BY <2>7, <3>1 DEF writeBackingStore, contents
    <3>4. UNCHANGED <<st, tables, next, ram, support, page, frame, overlap, doubled>>
      BY <2>7 DEF writeBackingStore, contents
    <3>5. QED
      BY <3>2, <3>3, <3>4 DEF tables, support
  <2>8. CASE readBackingStore(t)
    <3>1. frame[t] \in Frame /\ Mine(t, page[t]) \in Key
      BY <2>8 DEF readBackingStore, Moves, PlaceInv, Holding, Working
    <3>2. sup_privatePgTbl[Mine(t, page[t])].valid \in BOOLEAN
      BY <3>1 DEF Pte
    <3>3. doubled' \in BOOLEAN
      BY <2>8, <3>2 DEF readBackingStore, contents
    <3>4. \E to \in ClientAt : pc' = [pc EXCEPT ![t] = to]
      BY <2>8 DEF readBackingStore, Moves, ClientAt
    <3>5. ram' \in [Frame -> Val] /\ flash' \in [Key -> Val]
      BY <2>8, <3>1 DEF readBackingStore, contents
    <3>6. UNCHANGED <<st, tables, next, support, page, frame, overlap>>
      BY <2>8 DEF readBackingStore
    <3>7. QED
      BY <3>3, <3>4, <3>5, <3>6 DEF tables, support
  <2>9. CASE UpdateTables(t)
    <3> DEFINE k == Mine(t, page[t])
               e == [valid |-> TRUE, frame |-> frame[t]]
    <3>1. frame[t] \in Frame /\ k \in Key
      BY <2>9 DEF UpdateTables, Moves, PlaceInv, Holding, Working
    <3>2. e \in Pte
      BY <3>1, PteOf
    <3>3. /\ pc' = [pc EXCEPT ![t] = "leave"]
          /\ sup_privatePgTbl' = [sup_privatePgTbl EXCEPT ![k] = e]
          /\ swap_pool' = [swap_pool EXCEPT ![frame[t]] = k]
          /\ tlb' = [tlb EXCEPT ![k] = IF tlb[k] = NULL THEN NULL ELSE e]
          /\ UNCHANGED <<st, next, contents, support, page, frame, overlap, doubled>>
      BY <2>9 DEF UpdateTables, Moves, Probe
    <3> HIDE DEF k, e
    <3>4. QED
      BY <3>1, <3>2, <3>3 DEF contents, support, ClientAt
  <2>10. CASE LeaveSwapPool(t)
    BY <2>10 DEF LeaveSwapPool, Moves, Leave, tables, contents, support, ClientAt
  <2>11. CASE ResumeClient(t)
    BY <2>11 DEF ResumeClient, Moves, tables, contents, support, ClientAt
  <2>12. CASE TrapClient(t)
    BY <2>12 DEF TrapClient, Moves, Leave, tables, contents, support, ClientAt
  <2>13. QED
    BY <1>3, <2>1, <2>2, <2>3, <2>4, <2>5, <2>6, <2>7, <2>8, <2>9, <2>10, <2>11,
      <2>12 DEF pager
<1>4. QED
  BY <1>1, <1>2, <1>3, Steps

\* A load, a store and a refill leave the clients where they are.
LEMMA Unmoved ==
  ASSUME NEW t \in Client, NEW p \in Page,
         \/ uTLB_RefillHandler(t, p) \/ Load(t, p)
         \/ \E v \in Val : Store(t, p, v)
  PROVE  UNCHANGED <<st, pc, page, frame, sup_exceptState, overlap, doubled>>
BY DEF uTLB_RefillHandler, Load, Store, clients, support

\* vmSupport.c:113-173: mutual exclusion, and the locals of pager.
LEMMA PlaceStep ==
  PagerTypeOK /\ PlaceInv /\ [PagerNext]_pagerVars => PlaceInv'
<1> SUFFICES ASSUME PagerTypeOK, PlaceInv, [PagerNext]_pagerVars
             PROVE  PlaceInv'
  OBVIOUS
<1> USE PagerAssumption DEF PagerTypeOK, PlaceInv, Inside, Holding, Working, Faulting
<1>1. CASE UNCHANGED <<st, pc, page, frame, sup_exceptState>>
  BY <1>1
<1>2. ASSUME NEW t \in Client, NEW p \in Page, PageFault(t, p)
      PROVE  PlaceInv'
  <2>1. /\ Mine(t, p) \in Key
        /\ pc' = [pc EXCEPT ![t] = "fault"]
        /\ sup_exceptState' = [sup_exceptState EXCEPT ![asid[t]] = p]
        /\ UNCHANGED <<st, page, frame>>
    BY <1>2 DEF PageFault, Moves
  <2>2. ASSUME NEW u \in Client, pc'[u] \in Faulting
        PROVE  Mine(u, sup_exceptState'[asid[u]]) \in Key
    <3>1. CASE asid[u] = asid[t]
      BY <2>1, <3>1 DEF Mine
    <3>2. CASE asid[u] # asid[t]
      BY <2>1, <2>2, <3>2
    <3>3. QED
      BY <3>1, <3>2
  <2>3. QED
    BY <2>1, <2>2
<1>3. ASSUME NEW t \in Client, GetSupport(t) PROVE PlaceInv'
  BY <1>3 DEF GetSupport, Moves
<1>4. ASSUME NEW t \in Client, FollowsNull(t) PROVE PlaceInv'
  BY <1>4 DEF FollowsNull, support
<1>5. ASSUME NEW t \in Client, AskSwapPool(t) PROVE PlaceInv'
  BY <1>5 DEF AskSwapPool, Moves, Ask, support
<1>6. ASSUME NEW t \in Client, EnterSwapPool(t) PROVE PlaceInv'
  BY <1>6 DEF EnterSwapPool, Moves, Enter, support
<1>7. ASSUME NEW t \in Client, ChooseFrame(t) PROVE PlaceInv'
  <2>1. PICK f \in Frame :
          /\ pc[t] = "choose"
          /\ frame' = [frame EXCEPT ![t] = f]
          /\ pc' = [pc EXCEPT ![t] = IF swap_pool[f] = NULL THEN "read" ELSE "unmap"]
          /\ page' = [page EXCEPT ![t] = sup_exceptState[asid[t]]]
          /\ UNCHANGED <<st, sup_exceptState>>
    BY <1>7 DEF ChooseFrame, Moves, support
  <2>2. CASE swap_pool[f] = NULL
    BY <2>1, <2>2
  <2>3. CASE swap_pool[f] # NULL
    BY <2>1, <2>3
  <2>4. QED
    BY <2>2, <2>3
<1>8. ASSUME NEW t \in Client, UnmapVictim(t) PROVE PlaceInv'
  BY <1>8 DEF UnmapVictim, Moves, support
<1>9. ASSUME NEW t \in Client, writeBackingStore(t) PROVE PlaceInv'
  BY <1>9 DEF writeBackingStore, Moves, support
<1>10. ASSUME NEW t \in Client, readBackingStore(t) PROVE PlaceInv'
  BY <1>10 DEF readBackingStore, Moves, support
<1>11. ASSUME NEW t \in Client, UpdateTables(t) PROVE PlaceInv'
  BY <1>11 DEF UpdateTables, Moves, support
<1>12. ASSUME NEW t \in Client, LeaveSwapPool(t) PROVE PlaceInv'
  BY <1>12 DEF LeaveSwapPool, Moves, Leave, support
<1>13. ASSUME NEW t \in Client, ResumeClient(t) PROVE PlaceInv'
  BY <1>13 DEF ResumeClient, Moves, support
<1>14. ASSUME NEW t \in Client, TrapClient(t) PROVE PlaceInv'
  BY <1>14 DEF TrapClient, Moves, Leave, support
<1>15. CASE UNCHANGED pagerVars
  BY <1>1, <1>15 DEF pagerVars, clients, support
<1>16. ASSUME NEW t \in Client, User(t) PROVE PlaceInv'
  BY <1>1, <1>2, <1>16, Unmoved DEF User
<1>17. ASSUME NEW t \in Client, pager(t) PROVE PlaceInv'
  BY <1>3, <1>4, <1>5, <1>6, <1>7, <1>8, <1>9, <1>10, <1>11, <1>12, <1>13, <1>14,
    <1>17 DEF pager
<1>18. QED
  BY <1>15, <1>16, <1>17, Steps

\* vmSupport.c:131-136, 154-169, 180-191: the TLB follows the page tables.
LEMMA TlbStep ==
  PagerTypeOK /\ PlaceInv /\ TlbInv /\ [PagerNext]_pagerVars => TlbInv'
<1> SUFFICES ASSUME PagerTypeOK, PlaceInv, TlbInv, [PagerNext]_pagerVars
             PROVE  TlbInv'
  OBVIOUS
<1> USE DEF TlbInv
<1>1. CASE UNCHANGED <<tlb, sup_privatePgTbl>>
  BY <1>1
<1>2. ASSUME NEW t \in Client, NEW p \in Page, uTLB_RefillHandler(t, p)
      PROVE  TlbInv'
  BY <1>2 DEF uTLB_RefillHandler
<1>3. ASSUME NEW k \in Key, NEW e \in Pte,
             sup_privatePgTbl' = [sup_privatePgTbl EXCEPT ![k] = e],
             tlb' = Probe(k, e)
      PROVE  TlbInv'
  BY <1>3 DEF Probe, PagerTypeOK
<1>4. ASSUME NEW t \in Client, UnmapVictim(t) PROVE TlbInv'
  <2> DEFINE k == swap_pool[frame[t]]
             e == [sup_privatePgTbl[k] EXCEPT !.valid = ~@]
  <2>1. /\ sup_privatePgTbl' = [sup_privatePgTbl EXCEPT ![k] = e]
        /\ tlb' = Probe(k, e)
        /\ frame[t] \in Frame
    BY <1>4 DEF UnmapVictim, Moves, PlaceInv, Holding
  <2>2. CASE k \in Key
    <3> HIDE DEF k
    <3>0. sup_privatePgTbl[k] \in Pte
      BY <2>2 DEF PagerTypeOK
    <3>1. e \in Pte
      BY <3>0 DEF Pte
    <3> HIDE DEF e
    <3>2. QED
      BY <2>1, <2>2, <3>1, <1>3
  <2>3. CASE k = NULL
    <3>1. k \notin Key
      BY <2>3, NullApart
    <3> HIDE DEF k, e
    <3>2. QED
      BY <2>1, <3>1 DEF Probe, PagerTypeOK
  <2>4. QED
    BY <2>1, <2>2, <2>3 DEF PagerTypeOK
<1>5. ASSUME NEW t \in Client, UpdateTables(t) PROVE TlbInv'
  <2> DEFINE k == Mine(t, page[t])
             e == [valid |-> TRUE, frame |-> frame[t]]
  <2>1. /\ sup_privatePgTbl' = [sup_privatePgTbl EXCEPT ![k] = e]
        /\ tlb' = Probe(k, e)
        /\ frame[t] \in Frame /\ k \in Key
    BY <1>5 DEF UpdateTables, Moves, PlaceInv, Holding, Working
  <2>2. e \in Pte
    BY <2>1, PteOf
  <2> HIDE DEF k, e
  <2>3. QED
    BY <2>1, <2>2, <1>3
<1>6. CASE UNCHANGED pagerVars
  BY <1>1, <1>6 DEF pagerVars, tables
<1>7. ASSUME NEW t \in Client, User(t) PROVE TlbInv'
  <2>1. ASSUME NEW p \in Page, NEW v \in Val, Store(t, p, v) PROVE TlbInv'
    BY <1>1, <2>1 DEF Store, tables
  <2>2. ASSUME NEW p \in Page, PageFault(t, p) PROVE TlbInv'
    BY <1>1, <2>2 DEF PageFault, tables
  <2>3. ASSUME NEW p \in Page, Load(t, p) PROVE TlbInv'
    BY <1>1, <2>3 DEF Load, tables
  <2>4. QED
    BY <1>2, <1>7, <2>1, <2>2, <2>3 DEF User
<1>8. ASSUME NEW t \in Client, pager(t) PROVE TlbInv'
  <2>1. CASE UnmapVictim(t)
    BY <1>4, <2>1
  <2>2. CASE UpdateTables(t)
    BY <1>5, <2>2
  <2>3. CASE /\ ~UnmapVictim(t) /\ ~UpdateTables(t)
    BY <1>1, <1>8, <2>3 DEF pager, GetSupport, FollowsNull, AskSwapPool,
      EnterSwapPool, ChooseFrame, writeBackingStore, readBackingStore,
      LeaveSwapPool, ResumeClient, TrapClient, tables
  <2>4. QED
    BY <2>1, <2>2, <2>3
<1>9. QED
  BY <1>6, <1>7, <1>8, Steps

\* vmSupport.c:115: whoever has the mutex is alone with the swap pool.
LEMMA Sole ==
  ASSUME PlaceInv, NEW t \in Client, pc[t] \in Inside
  PROVE  \A u \in Client : u # t => pc[u] \notin Inside
BY DEF PlaceInv

\* exceptionsSupport.c: a client that has failed does not come back.
LEMMA TrappedStays ==
  PagerTypeOK /\ PlaceInv /\ Trapped /\ [PagerNext]_pagerVars => Trapped'
<1> SUFFICES ASSUME PagerTypeOK, Trapped, [PagerNext]_pagerVars
             PROVE  Trapped'
  OBVIOUS
<1> PICK u \in Client : pc[u] \in {"trap", "dead"}
  BY DEF Trapped
<1>1. CASE UNCHANGED pc
  BY <1>1 DEF Trapped
<1>2. ASSUME NEW t \in Client, NEW from, NEW to, Moves(t, from, to),
             from \in {"trap", "dead"} => to \in {"trap", "dead"}
      PROVE  Trapped'
  <2>1. pc'[u] \in {"trap", "dead"}
    BY <1>2 DEF Moves, PagerTypeOK
  <2>2. QED
    BY <2>1 DEF Trapped
<1>3. CASE UNCHANGED pagerVars
  BY <1>1, <1>3 DEF pagerVars, clients
<1>4. ASSUME NEW t \in Client, User(t) PROVE Trapped'
  <2>1. ASSUME NEW p \in Page, PageFault(t, p) PROVE Trapped'
    BY <1>2, <2>1 DEF PageFault
  <2>2. QED
    BY <1>1, <1>4, <2>1, Unmoved DEF User
<1>5. ASSUME NEW t \in Client, pager(t) PROVE Trapped'
  <2>1. CASE FollowsNull(t)
    <3>1. Moves(t, pc[t], "null") /\ pc[t] \notin {"trap", "dead"}
      BY <2>1 DEF FollowsNull, Follows, Moves
    <3>2. QED
      BY <1>2, <3>1
  <2>2. CASE ~FollowsNull(t)
    <3>1. \E from, to : /\ Moves(t, from, to)
                        /\ from \in {"trap", "dead"} => to \in {"trap", "dead"}
      BY <1>5, <2>2 DEF pager, GetSupport, AskSwapPool, EnterSwapPool, ChooseFrame,
        UnmapVictim, writeBackingStore, readBackingStore, UpdateTables,
        LeaveSwapPool, ResumeClient, TrapClient
    <3>2. QED
      BY <1>2, <3>1
  <2>3. QED
    BY <2>1, <2>2
<1>6. QED
  BY <1>3, <1>4, <1>5, Steps

\* A client that moves and has no frame in its hands, before or after.
LEMMA MoveStep ==
  ASSUME PagerTypeOK, PlaceInv, Settled, NEW t \in Client, NEW to \in ClientAt,
         pc[t] \notin Working, to \notin Working \cup {"unmap"},
         pc' = [pc EXCEPT ![t] = to],
         \A u \in Client : u # t => page'[u] = page[u] /\ frame'[u] = frame[u],
         UNCHANGED <<swap_pool, sup_privatePgTbl, ram, flash>>
  PROVE  Settled'
<1>1. \A f : Taken(f)' <=> Taken(f)
  BY DEF Taken, PagerTypeOK
<1>2. PoolInv' /\ TableInv'
  BY <1>1 DEF PoolInv, TableInv, Settled
<1>3. ASSUME NEW u \in Client, pc'[u] \in Working \cup {"unmap"}
      PROVE  u # t /\ pc'[u] = pc[u] /\ page'[u] = page[u] /\ frame'[u] = frame[u]
  BY <1>3 DEF PagerTypeOK
<1>4. WorkInv'
  <2> SUFFICES ASSUME NEW u \in Client, pc'[u] \in Working \cup {"unmap"}
               PROVE  /\ pc'[u] \in {"unmap", "write"} => swap_pool[frame[u]] # NULL
                      /\ pc'[u] \in Working /\ swap_pool[frame[u]] # NULL =>
                           ~sup_privatePgTbl[swap_pool[frame[u]]].valid
                      /\ pc'[u] = "write" =>
                           sup_privatePgTbl[swap_pool[frame[u]]].frame = frame[u]
                      /\ pc'[u] = "update" =>
                           /\ ram[frame[u]] = flash[Mine(u, page[u])]
                           /\ ~sup_privatePgTbl[Mine(u, page[u])].valid
    BY <1>3 DEF WorkInv, Working, Mine
  <2>1. QED
    BY <1>3 DEF WorkInv, Settled
<1>5. QED
  BY <1>2, <1>4 DEF Settled

\* vmSupport.c:117-126: the frame that is chosen is free, or the one in turn.
LEMMA ChooseStep ==
  ASSUME PagerTypeOK, PlaceInv, Settled, NEW t \in Client, ChooseFrame(t)
  PROVE  Settled'
<1>1. PICK f \in Frame :
        /\ pc[t] = "choose"
        /\ pc' = [pc EXCEPT ![t] = IF swap_pool[f] = NULL THEN "read" ELSE "unmap"]
        /\ frame' = [frame EXCEPT ![t] = f]
        /\ UNCHANGED <<st, tables, contents>>
  BY DEF ChooseFrame, Moves
<1>2. \A u \in Client : u # t => pc[u] \notin Inside
  BY <1>1, Sole DEF Inside
<1>3. \A g : ~Taken(g)
  BY <1>1, <1>2 DEF Taken, Working, Inside
<1>4. CASE swap_pool[f] = NULL
  <2>1. \A g : Taken(g)' <=> g = f
    BY <1>1, <1>2, <1>4 DEF Taken, Working, Inside, PagerTypeOK
  <2>2. PoolInv'
    BY <1>1, <1>3 DEF PoolInv, Settled, tables
  <2>3. TableInv'
    BY <1>1, <1>3, <1>4, <2>1, NullApart DEF TableInv, Settled, tables
  <2>4. WorkInv'
    BY <1>1, <1>2, <1>4 DEF WorkInv, Settled, Working, Inside, PagerTypeOK,
      tables, contents
  <2>5. QED
    BY <2>2, <2>3, <2>4 DEF Settled
<1>5. CASE swap_pool[f] # NULL
  <2>1. \A g : ~Taken(g)'
    BY <1>1, <1>2, <1>5 DEF Taken, Working, Inside, PagerTypeOK
  <2>2. PoolInv' /\ TableInv'
    BY <1>1, <1>3, <2>1 DEF PoolInv, TableInv, Settled, tables
  <2>3. WorkInv'
    BY <1>1, <1>2, <1>5 DEF WorkInv, Settled, Working, Inside, PagerTypeOK,
      tables, contents
  <2>4. QED
    BY <2>2, <2>3 DEF Settled
<1>6. QED
  BY <1>4, <1>5

\* What UnmapVictim knows and does: the page in the frame is valid before, and
\* is not after.
LEMMA Victim ==
  ASSUME PagerTypeOK, PlaceInv, Settled, NEW t \in Client, UnmapVictim(t)
  PROVE  LET f == frame[t]
             k == swap_pool[f]
         IN  /\ f \in Frame /\ k \in Key
             /\ pc[t] = "unmap" /\ pc' = [pc EXCEPT ![t] = "write"]
             /\ sup_privatePgTbl[k].valid /\ sup_privatePgTbl[k].frame = f
             /\ ~sup_privatePgTbl'[k].valid /\ sup_privatePgTbl'[k].frame = f
             /\ \A j \in Key : j # k => sup_privatePgTbl'[j] = sup_privatePgTbl[j]
             /\ UNCHANGED <<st, swap_pool, next, ram, flash, page, frame>>
             /\ \A u \in Client : u # t => pc[u] \notin Inside
             /\ \A g : ~Taken(g)
             /\ \A g : Taken(g)' <=> g = f
<1> DEFINE f == frame[t]
           k == swap_pool[f]
           e == [sup_privatePgTbl[k] EXCEPT !.valid = ~@]
<1>1. /\ pc[t] = "unmap" /\ pc' = [pc EXCEPT ![t] = "write"]
      /\ sup_privatePgTbl' = [sup_privatePgTbl EXCEPT ![k] = e]
      /\ UNCHANGED <<st, swap_pool, next, ram, flash, page, frame>>
  BY DEF UnmapVictim, Moves, contents
<1>2. f \in Frame
  BY <1>1 DEF PlaceInv, Holding
<1>3. k \in Key
  BY <1>1, <1>2 DEF Settled, WorkInv, PagerTypeOK
<1>4. \A u \in Client : u # t => pc[u] \notin Inside
  BY <1>1, Sole DEF Inside
<1>5. \A g : ~Taken(g)
  BY <1>1, <1>4 DEF Taken, Working, Inside
<1>6. \A g : Taken(g)' <=> g = f
  BY <1>1, <1>4 DEF Taken, Working, Inside, PagerTypeOK
<1>7. sup_privatePgTbl[k].valid /\ sup_privatePgTbl[k].frame = f
  BY <1>2, <1>3, <1>5, NullApart DEF Settled, PoolInv
<1> HIDE DEF k
<1>8. sup_privatePgTbl[k] \in Pte
  BY <1>3 DEF PagerTypeOK
<1>9. ~e.valid /\ e.frame = f
  BY <1>7, <1>8 DEF Pte
<1> HIDE DEF e
<1>10. /\ sup_privatePgTbl'[k] = e
       /\ \A j \in Key : j # k => sup_privatePgTbl'[j] = sup_privatePgTbl[j]
  BY <1>1, <1>3 DEF PagerTypeOK
<1>11. QED
  BY <1>1, <1>2, <1>3, <1>4, <1>5, <1>6, <1>7, <1>9, <1>10 DEF k

\* vmSupport.c:126-137: a page that leaves its frame.
LEMMA UnmapStep ==
  ASSUME PagerTypeOK, PlaceInv, Settled, NEW t \in Client, UnmapVictim(t)
  PROVE  Settled'
<1> DEFINE f == frame[t]
           k == swap_pool[f]
<1>1. /\ f \in Frame /\ k \in Key
      /\ pc[t] = "unmap" /\ pc' = [pc EXCEPT ![t] = "write"]
      /\ sup_privatePgTbl[k].valid /\ sup_privatePgTbl[k].frame = f
      /\ ~sup_privatePgTbl'[k].valid /\ sup_privatePgTbl'[k].frame = f
      /\ \A j \in Key : j # k => sup_privatePgTbl'[j] = sup_privatePgTbl[j]
      /\ UNCHANGED <<st, swap_pool, next, ram, flash, page, frame>>
      /\ \A u \in Client : u # t => pc[u] \notin Inside
      /\ \A g : ~Taken(g)
      /\ \A g : Taken(g)' <=> g = f
  BY Victim
<1>2. k # NULL
  BY <1>1, NullApart
<1>3. PoolInv'
  BY <1>1 DEF Settled, PoolInv, PagerTypeOK
<1>4. TableInv'
  BY <1>1 DEF Settled, TableInv
<1>5. WorkInv'
  <2>1. /\ pc'[t] = "write" /\ swap_pool'[frame'[t]] = k /\ frame'[t] = f
        /\ \A u \in Client : u # t => pc'[u] = pc[u] /\ pc[u] \notin Inside
    BY <1>1 DEF PagerTypeOK
  <2> HIDE DEF k, f
  <2>2. QED
    BY <1>1, <1>2, <2>1 DEF WorkInv, Working, Inside
<1>6. QED
  BY <1>3, <1>4, <1>5 DEF Settled

\* vmSupport.c:139-146: the transfers change neither swap pool nor page tables.
LEMMA TransferStep ==
  ASSUME PagerTypeOK, PlaceInv, Settled, NEW t \in Client,
         writeBackingStore(t) \/ readBackingStore(t), ~Trapped', ~doubled'
  PROVE  Settled'
<1>1. /\ \/ pc[t] = "write" /\ pc' = [pc EXCEPT ![t] = "read"]
         \/ /\ pc[t] = "read" /\ pc' = [pc EXCEPT ![t] = "update"]
            /\ ram' = [ram EXCEPT ![frame[t]] = flash[Mine(t, page[t])]]
            /\ flash' = flash
            /\ ~sup_privatePgTbl[Mine(t, page[t])].valid
      /\ UNCHANGED <<st, swap_pool, sup_privatePgTbl, page, frame>>
  BY DEF writeBackingStore, readBackingStore, Moves, Trapped, tables, PagerTypeOK
<1>2. /\ pc[t] \in Working /\ pc'[t] \in Working /\ frame[t] \in Frame
      /\ \A u \in Client : u # t => pc'[u] = pc[u] /\ pc[u] \notin Inside
  BY <1>1, Sole DEF Working, Inside, Holding, PlaceInv, PagerTypeOK
<1>3. \A g : Taken(g)' <=> Taken(g)
  BY <1>1, <1>2 DEF Taken, PagerTypeOK
<1>4. PoolInv' /\ TableInv'
  BY <1>1, <1>3 DEF PoolInv, TableInv, Settled
<1>5. WorkInv'
  <2>1. CASE pc[t] = "write"
    <3>1. pc'[t] = "read"
      BY <1>1, <2>1 DEF PagerTypeOK
    <3>2. QED
      BY <1>1, <1>2, <2>1, <3>1 DEF WorkInv, Settled, Working, Inside
  <2>2. CASE pc[t] = "read"
    <3> DEFINE m == Mine(t, page[t])
    <3>1. pc'[t] = "update"
      BY <1>1, <2>2 DEF PagerTypeOK
    <3>2. Mine(t, page'[t]) = m /\ flash'[m] = flash[m]
          /\ ram'[frame[t]] = flash[m] /\ ~sup_privatePgTbl[m].valid
      BY <1>1, <1>2, <2>2 DEF PagerTypeOK, Mine
    <3> HIDE DEF m
    <3>3. ASSUME NEW u \in Client, u = t
          PROVE  /\ swap_pool'[frame'[u]] # NULL =>
                      ~sup_privatePgTbl'[swap_pool'[frame'[u]]].valid
                 /\ ram'[frame'[u]] = flash'[Mine(u, page'[u])]
                 /\ ~sup_privatePgTbl'[Mine(u, page'[u])].valid
      BY <1>1, <2>2, <3>2, <3>3 DEF Settled, WorkInv, Working
    <3>4. QED
      BY <1>1, <1>2, <2>2, <3>1, <3>3 DEF WorkInv, Working, Inside
  <2>3. QED
    BY <1>1, <2>1, <2>2
<1>6. QED
  BY <1>4, <1>5 DEF Settled

\* What UpdateTables knows and does: the missing page was not valid, and is now
\* the page of the frame, which no valid page was in.
LEMMA Arrival ==
  ASSUME PagerTypeOK, PlaceInv, Settled, NEW t \in Client, UpdateTables(t)
  PROVE  LET f == frame[t]
             k == Mine(t, page[t])
         IN  /\ f \in Frame /\ k \in Key
             /\ pc[t] = "update" /\ pc' = [pc EXCEPT ![t] = "leave"]
             /\ ~sup_privatePgTbl[k].valid
             /\ sup_privatePgTbl'[k].valid /\ sup_privatePgTbl'[k].frame = f
             /\ \A j \in Key : j # k => sup_privatePgTbl'[j] = sup_privatePgTbl[j]
             /\ swap_pool'[f] = k
             /\ \A g \in Frame : g # f => swap_pool'[g] = swap_pool[g]
             /\ UNCHANGED <<st, next, ram, flash, page, frame>>
             /\ \A u \in Client : u # t => pc[u] \notin Inside
             /\ \A g : Taken(g) <=> g = f
             /\ \A g : ~Taken(g)'
             /\ ram[f] = flash[k]
<1> DEFINE f == frame[t]
           k == Mine(t, page[t])
           e == [valid |-> TRUE, frame |-> frame[t]]
<1>1. /\ pc[t] = "update" /\ pc' = [pc EXCEPT ![t] = "leave"]
      /\ sup_privatePgTbl' = [sup_privatePgTbl EXCEPT ![k] = e]
      /\ swap_pool' = [swap_pool EXCEPT ![f] = k]
      /\ UNCHANGED <<st, next, ram, flash, page, frame>>
  BY DEF UpdateTables, Moves, contents
<1>2. f \in Frame /\ k \in Key
  BY <1>1 DEF PlaceInv, Holding, Working
<1>3. \A u \in Client : u # t => pc[u] \notin Inside
  BY <1>1, Sole DEF Inside
<1>4. /\ \A g : Taken(g) <=> g = f
      /\ \A g : ~Taken(g)'
  BY <1>1, <1>3 DEF Taken, Working, Inside, PagerTypeOK
<1>5. ~sup_privatePgTbl[k].valid /\ ram[f] = flash[k]
  BY <1>1 DEF Settled, WorkInv, Working
<1>6. e.valid /\ e.frame = f
  OBVIOUS
<1> HIDE DEF e, k, f
<1>7. /\ sup_privatePgTbl'[k] = e
      /\ \A j \in Key : j # k => sup_privatePgTbl'[j] = sup_privatePgTbl[j]
      /\ swap_pool'[f] = k
      /\ \A g \in Frame : g # f => swap_pool'[g] = swap_pool[g]
  BY <1>1, <1>2 DEF PagerTypeOK
<1>8. QED
  BY <1>1, <1>2, <1>3, <1>4, <1>5, <1>6, <1>7 DEF k, f

\* vmSupport.c:153-169: a page that arrives in its frame.
LEMMA UpdateStep ==
  ASSUME PagerTypeOK, PlaceInv, Settled, NEW t \in Client, UpdateTables(t)
  PROVE  Settled'
<1> DEFINE f == frame[t]
           k == Mine(t, page[t])
<1>1. /\ f \in Frame /\ k \in Key
      /\ pc[t] = "update" /\ pc' = [pc EXCEPT ![t] = "leave"]
      /\ ~sup_privatePgTbl[k].valid
      /\ sup_privatePgTbl'[k].valid /\ sup_privatePgTbl'[k].frame = f
      /\ \A j \in Key : j # k => sup_privatePgTbl'[j] = sup_privatePgTbl[j]
      /\ swap_pool'[f] = k
      /\ \A g \in Frame : g # f => swap_pool'[g] = swap_pool[g]
      /\ UNCHANGED <<st, next, ram, flash, page, frame>>
      /\ \A u \in Client : u # t => pc[u] \notin Inside
      /\ \A g : Taken(g) <=> g = f
      /\ \A g : ~Taken(g)'
  BY Arrival
<1> HIDE DEF f, k
<1>3. PoolInv'
  <2> SUFFICES ASSUME NEW g \in Frame, swap_pool'[g] # NULL
               PROVE  /\ sup_privatePgTbl'[swap_pool'[g]].valid
                      /\ sup_privatePgTbl'[swap_pool'[g]].frame = g
    BY <1>1 DEF PoolInv
  <2>1. CASE g = f
    BY <1>1, <2>1
  <2>2. CASE g # f
    <3>1. swap_pool'[g] = swap_pool[g] /\ swap_pool[g] \in Key
      BY <1>1, <2>2 DEF PagerTypeOK
    <3>2. sup_privatePgTbl[swap_pool[g]].valid /\ sup_privatePgTbl[swap_pool[g]].frame = g
      BY <1>1, <2>2, <3>1 DEF Settled, PoolInv
    <3>3. QED
      BY <1>1, <3>1, <3>2
  <2>3. QED
    BY <2>1, <2>2
<1>4. TableInv'
  <2> SUFFICES ASSUME NEW j \in Key, sup_privatePgTbl'[j].valid
               PROVE  /\ sup_privatePgTbl'[j].frame \in Frame
                      /\ swap_pool'[sup_privatePgTbl'[j].frame] = j
    BY <1>1 DEF TableInv
  <2>1. CASE j = k
    BY <1>1, <2>1
  <2>2. CASE j # k
    BY <1>1, <2>2 DEF Settled, TableInv
  <2>3. QED
    BY <2>1, <2>2
<1>5. WorkInv'
  <2>1. /\ pc'[t] = "leave"
        /\ \A u \in Client : u # t => pc'[u] = pc[u] /\ pc[u] \notin Inside
    BY <1>1 DEF PagerTypeOK
  <2>2. QED
    BY <2>1 DEF WorkInv, Working, Inside
<1>6. QED
  BY <1>3, <1>4, <1>5 DEF Settled

\* A store goes into a frame nobody works on.
LEMMA StoreStep ==
  ASSUME PagerTypeOK, PlaceInv, TlbInv, Settled,
         NEW t \in Client, NEW p \in Page, NEW v \in Val, Store(t, p, v)
  PROVE  Settled'
<1> DEFINE k == Mine(t, p)
           f == sup_privatePgTbl[k].frame
<1>1. /\ k \in Key /\ sup_privatePgTbl[k].valid
      /\ ram' = [ram EXCEPT ![f] = v]
      /\ UNCHANGED <<swap_pool, sup_privatePgTbl, flash, pc, page, frame>>
  BY DEF Store, Hits, TlbInv, tables, clients
<1>2. \A u \in Client : pc[u] \in Working => frame[u] # f
  BY <1>1 DEF Settled, TableInv, Taken
<1> HIDE DEF f, k
<1>3. \A u \in Client : pc[u] = "update" => frame[u] \in Frame /\ ram'[frame[u]] = ram[frame[u]]
  BY <1>1, <1>2 DEF PagerTypeOK, PlaceInv, Holding, Working
<1>4. PoolInv' /\ TableInv'
  BY <1>1 DEF PoolInv, TableInv, Settled, Taken
<1>5. WorkInv'
  BY <1>1, <1>3 DEF WorkInv, Settled, Mine
<1>6. QED
  BY <1>4, <1>5 DEF Settled

\* vmSupport.c: every step the model follows further, before a transfer fails,
\* keeps swap pool, page tables and clients in agreement.
LEMMA SettledStep ==
  ASSUME PagerTypeOK, PlaceInv, TlbInv, Settled, [PagerNext]_pagerVars,
         ~Trapped', Followed'
  PROVE  Settled'
<1>1. CASE UNCHANGED <<pc, page, frame, swap_pool, sup_privatePgTbl, ram, flash>>
  BY <1>1 DEF Settled, PoolInv, TableInv, WorkInv, Taken, Mine
<1>2. CASE UNCHANGED pagerVars
  BY <1>1, <1>2 DEF pagerVars, tables, contents, clients
<1>3. ASSUME NEW t \in Client, NEW from \in ClientAt, NEW to \in ClientAt,
             Moves(t, from, to), from \notin Working, to \notin Working \cup {"unmap"},
             \A u \in Client : u # t => page'[u] = page[u] /\ frame'[u] = frame[u],
             UNCHANGED <<swap_pool, sup_privatePgTbl, ram, flash>>
      PROVE  Settled'
  BY <1>3, MoveStep DEF Moves
<1>4. ASSUME NEW t \in Client, User(t) PROVE Settled'
  <2> PICK p \in Page : \/ uTLB_RefillHandler(t, p) \/ PageFault(t, p) \/ Load(t, p)
                        \/ \E v \in Val : Store(t, p, v)
    BY <1>4 DEF User
  <2>1. CASE uTLB_RefillHandler(t, p)
    BY <1>1, <2>1 DEF uTLB_RefillHandler, contents, clients
  <2>2. CASE PageFault(t, p)
    <3>1. /\ Moves(t, "user", "fault")
          /\ UNCHANGED <<swap_pool, sup_privatePgTbl, ram, flash, page, frame>>
      BY <2>2 DEF PageFault, tables, contents
    <3>2. QED
      BY <1>3, <3>1 DEF ClientAt, Working
  <2>3. CASE Load(t, p)
    BY <1>1, <2>3 DEF Load, tables, contents, clients
  <2>4. ASSUME NEW v \in Val, Store(t, p, v) PROVE Settled'
    BY <2>4, StoreStep
  <2>5. QED
    BY <2>1, <2>2, <2>3, <2>4
<1>5. ASSUME NEW t \in Client, pager(t) PROVE Settled'
  <2>1. CASE GetSupport(t)
    <3>1. /\ Moves(t, "fault", "known")
          /\ UNCHANGED <<swap_pool, sup_privatePgTbl, ram, flash, page, frame>>
      BY <2>1 DEF GetSupport, tables, contents
    <3>2. QED
      BY <1>3, <3>1 DEF ClientAt, Working
  <2>2. CASE FollowsNull(t)
    BY <2>2 DEF FollowsNull, Followed, PagerTypeOK
  <2>3. CASE AskSwapPool(t)
    <3>1. /\ Moves(t, "known", "asking")
          /\ UNCHANGED <<swap_pool, sup_privatePgTbl, ram, flash, page, frame>>
      BY <2>3 DEF AskSwapPool, tables, contents
    <3>2. QED
      BY <1>3, <3>1 DEF ClientAt, Working
  <2>4. CASE EnterSwapPool(t)
    <3>1. /\ Moves(t, "asking", "choose")
          /\ UNCHANGED <<swap_pool, sup_privatePgTbl, ram, flash, page, frame>>
      BY <2>4 DEF EnterSwapPool, tables, contents
    <3>2. QED
      BY <1>3, <3>1 DEF ClientAt, Working
  <2>5. CASE ChooseFrame(t)
    BY <2>5, ChooseStep
  <2>6. CASE UnmapVictim(t)
    BY <2>6, UnmapStep
  <2>7. CASE writeBackingStore(t) \/ readBackingStore(t)
    BY <2>7, TransferStep DEF Followed
  <2>8. CASE UpdateTables(t)
    BY <2>8, UpdateStep
  <2>9. CASE LeaveSwapPool(t)
    <3>1. /\ Moves(t, "leave", "resume")
          /\ UNCHANGED <<swap_pool, sup_privatePgTbl, ram, flash, page, frame>>
      BY <2>9 DEF LeaveSwapPool, tables, contents
    <3>2. QED
      BY <1>3, <3>1 DEF ClientAt, Working
  <2>10. CASE ResumeClient(t)
    <3>1. /\ Moves(t, "resume", "user")
          /\ \A u \in Client : u # t => page'[u] = page[u] /\ frame'[u] = frame[u]
          /\ UNCHANGED <<swap_pool, sup_privatePgTbl, ram, flash>>
      BY <2>10 DEF ResumeClient, tables, contents, PagerTypeOK
    <3>2. QED
      BY <1>3, <3>1 DEF ClientAt, Working
  <2>11. CASE TrapClient(t)
    BY <2>11 DEF TrapClient, Moves, Trapped, PagerTypeOK
  <2>12. QED
    BY <1>5, <2>1, <2>2, <2>3, <2>4, <2>5, <2>6, <2>7, <2>8, <2>9, <2>10, <2>11
      DEF pager
<1>6. QED
  BY <1>2, <1>4, <1>5, Steps

\* A page that is settled is in one frame: whoever works on a frame is alone,
\* and the page that was there is not valid.
LEMMA SettledTidy ==
  ASSUME PlaceInv, Settled
  PROVE  Tidy
<1>1. \A k \in Key : sup_privatePgTbl[k].valid => swap_pool[sup_privatePgTbl[k].frame] = k
  BY DEF Settled, TableInv
<1>2. ASSUME NEW h \in Frame, NEW i \in Frame, h # i, Taken(h),
             swap_pool[h] = swap_pool[i], swap_pool[h] # NULL
      PROVE  FALSE
  <2>1. PICK t \in Client : pc[t] \in Working /\ frame[t] = h
    BY <1>2 DEF Taken
  <2>2. \A u \in Client : u # t => pc[u] \notin Inside
    BY <2>1, Sole DEF Working, Inside
  <2>3. ~Taken(i)
    BY <1>2, <2>1, <2>2 DEF Taken, Working, Inside
  <2>4. sup_privatePgTbl[swap_pool[i]].valid
    BY <1>2, <2>3 DEF Settled, PoolInv
  <2>5. QED
    BY <1>2, <2>1, <2>4 DEF Settled, WorkInv
<1>3. ASSUME NEW f \in Frame, NEW g \in Frame,
             swap_pool[f] = swap_pool[g], swap_pool[f] # NULL
      PROVE  f = g
  <2>1. CASE ~Taken(f) /\ ~Taken(g)
    BY <1>3, <2>1 DEF Settled, PoolInv
  <2>2. QED
    BY <1>2, <1>3, <2>1
<1>4. QED
  BY <1>1, <1>3 DEF Tidy

\* vmSupport.c:114-173: a step the model does not follow further, though no page
\* has been read twice, is an access through NULL, which changes no table.
LEMMA NullStep ==
  ASSUME PagerTypeOK, Followed, [PagerNext]_pagerVars, ~doubled', ~Followed'
  PROVE  UNCHANGED <<swap_pool, sup_privatePgTbl>>
<1>1. PICK u \in Client : pc'[u] = "null"
  BY DEF Followed
<1>2. pc[u] # "null"
  BY DEF Followed
<1>3. CASE UNCHANGED pagerVars
  BY <1>3 DEF pagerVars, tables
<1>4. ASSUME NEW t \in Client, User(t) PROVE FALSE
  <2>1. ASSUME NEW p \in Page, PageFault(t, p) PROVE FALSE
    BY <1>1, <1>2, <2>1 DEF PageFault, Moves, PagerTypeOK
  <2>2. QED
    BY <1>1, <1>2, <1>4, <2>1, Unmoved DEF User
<1>5. ASSUME NEW t \in Client, pager(t)
      PROVE  UNCHANGED <<swap_pool, sup_privatePgTbl>>
  <2>1. CASE FollowsNull(t)
    BY <2>1 DEF FollowsNull, tables
  <2>2. CASE ~FollowsNull(t)
    <3>1. \E from, to : Moves(t, from, to) /\ to # "null"
      BY <1>5, <2>2 DEF pager, GetSupport, AskSwapPool, EnterSwapPool, ChooseFrame,
        UnmapVictim, writeBackingStore, readBackingStore, UpdateTables,
        LeaveSwapPool, ResumeClient, TrapClient
    <3>2. QED
      BY <1>1, <1>2, <3>1 DEF Moves, PagerTypeOK
  <2>3. QED
    BY <2>1, <2>2
<1>6. QED
  BY <1>3, <1>4, <1>5, Steps

\* initProc.c:7-46: nothing is in memory.
LEMMA PagerInitInv == PagerInit => PagerInv
<1> SUFFICES ASSUME PagerInit PROVE PagerInv
  OBVIOUS
<1> USE DEF PagerInit, LockInit
<1>1. 0 \in Frame
  BY PagerAssumption DEF Frame
<1>2. [valid |-> FALSE, frame |-> NULL] \in Pte
  BY DEF Pte
<1>3. PagerTypeOK
  <2> HIDE DEF LockInit
  <2>1. st \in [Client -> {"out", "waiting", "in"}]
    BY DEF LockInit
  <2>2. QED
    BY <1>1, <1>2, <2>1, PagerAssumption DEF PagerTypeOK, ClientAt
<1>4. PlaceInv
  BY DEF PlaceInv, Inside, Holding, Working, Faulting
<1>5. TlbInv
  BY DEF TlbInv
<1>6. Settled
  BY DEF Settled, PoolInv, TableInv, WorkInv, Working
<1>7. FaultInv
  BY DEF FaultInv, Faulting, Holding, Working
<1>8. QED
  BY <1>3, <1>4, <1>5, <1>6, <1>7, SettledTidy DEF PagerInv

\* A step of a client that has a fault already, that leaves tables and faults as
\* they are.
LEMMA SameFaults ==
  ASSUME PagerTypeOK, FaultInv, NEW t \in Client, NEW to \in ClientAt,
         pc[t] # "user", pc' = [pc EXCEPT ![t] = to],
         to \in Faulting => pc[t] \in Faulting,
         to \in Holding => pc[t] \in Holding,
         \A u \in Client : u # t => page'[u] = page[u],
         to \in Holding => page'[t] = page[t],
         UNCHANGED <<sup_privatePgTbl, sup_exceptState, doubled>>
  PROVE  FaultInv'
<1>1. pc'[t] = to /\ \A u \in Client : u # t => pc'[u] = pc[u]
  BY DEF PagerTypeOK
<1>2. /\ \A u \in Client : pc'[u] # "user" => pc[u] # "user"
      /\ \A u \in Client : pc'[u] \in Faulting => pc[u] \in Faulting
      /\ \A u \in Client : pc'[u] \in Holding => pc[u] \in Holding /\ page'[u] = page[u]
  BY <1>1
<1>3. QED
  BY <1>2 DEF FaultInv, Mine

\* vmSupport.c:117-119: what has been missing at the fault is still missing when
\* the frame is chosen.
LEMMA ChooseFaults ==
  ASSUME PagerTypeOK, FaultInv, NEW t \in Client, ChooseFrame(t)
  PROVE  FaultInv'
<1>1. /\ pc[t] = "choose" /\ pc'[t] \in Holding
      /\ \A u \in Client : u # t => pc'[u] = pc[u] /\ page'[u] = page[u]
      /\ page'[t] = sup_exceptState[asid[t]]
      /\ UNCHANGED <<sup_privatePgTbl, sup_exceptState, doubled>>
  BY DEF ChooseFrame, Moves, Holding, Working, tables, support, PagerTypeOK
<1>2. pc'[t] \notin Faulting
  BY <1>1 DEF Holding, Working, Faulting
<1>3. ASSUME NEW u \in Client, pc'[u] \in Holding
      PROVE  ~sup_privatePgTbl'[Mine(u, page'[u])].valid
  <2>1. CASE u = t
    BY <1>1, <2>1 DEF FaultInv, Faulting
  <2>2. CASE u # t
    BY <1>1, <1>3, <2>2 DEF FaultInv
  <2>3. QED
    BY <2>1, <2>2
<1>4. \A u \in Client : pc'[u] # "user" => pc[u] # "user"
  BY <1>1
<1>5. \A u \in Client : pc'[u] \in Faulting => pc[u] \in Faulting
  BY <1>1, <1>2
<1>6. QED
  BY <1>1, <1>3, <1>4, <1>5 DEF FaultInv, Mine

\* vmSupport.c:153-169: the page that arrives is missed by nobody else.
LEMMA UpdateFaults ==
  ASSUME PagerTypeOK, PlaceInv, Settled, FaultInv, NEW t \in Client, UpdateTables(t)
  PROVE  FaultInv'
<1> DEFINE k == Mine(t, page[t])
<1>1. /\ k \in Key /\ pc[t] = "update" /\ pc' = [pc EXCEPT ![t] = "leave"]
      /\ \A j \in Key : j # k => sup_privatePgTbl'[j] = sup_privatePgTbl[j]
      /\ page' = page
  BY Arrival
<1>2. UNCHANGED <<sup_exceptState, doubled>>
  BY DEF UpdateTables, support
<1>3. /\ pc'[t] = "leave"
      /\ \A u \in Client : u # t => pc'[u] = pc[u]
  BY <1>1 DEF PagerTypeOK
<1>4. ASSUME NEW u \in Client, pc'[u] # "user", u # t
      PROVE  \A p : Mine(u, p) # k
  BY <1>1, <1>3, <1>4 DEF FaultInv, Mine
<1>5. ASSUME NEW u \in Client, pc'[u] \in Faulting
      PROVE  ~sup_privatePgTbl'[Mine(u, sup_exceptState[asid[u]])].valid
  <2>1. u # t /\ pc[u] \in Faulting /\ pc'[u] # "user"
    BY <1>3, <1>5 DEF Faulting
  <2>2. Mine(u, sup_exceptState[asid[u]]) \in Key
    BY <2>1 DEF PlaceInv
  <2>3. QED
    BY <1>1, <1>4, <2>1, <2>2 DEF FaultInv
<1>6. ASSUME NEW u \in Client, pc'[u] \in Holding
      PROVE  ~sup_privatePgTbl'[Mine(u, page[u])].valid
  <2>1. u # t /\ pc[u] \in Holding /\ pc'[u] # "user"
    BY <1>3, <1>6 DEF Holding, Working
  <2>2. Mine(u, page[u]) \in Key
    BY <2>1 DEF PlaceInv
  <2>3. QED
    BY <1>1, <1>4, <2>1, <2>2 DEF FaultInv
<1>7. \A u \in Client : pc'[u] # "user" => pc[u] # "user"
  BY <1>1, <1>3
<1> HIDE DEF k
<1>8. QED
  BY <1>1, <1>2, <1>5, <1>6, <1>7 DEF FaultInv, Mine

\* exceptions.c: a fault while nobody of the address space is in the pager.
LEMMA PageFaults ==
  ASSUME PagerTypeOK, TlbInv, FaultInv, NEW t \in Client, NEW p \in Page,
         PageFault(t, p), ~overlap'
  PROVE  FaultInv'
<1>1. /\ pc[t] = "user" /\ pc'[t] = "fault"
      /\ \A u \in Client : u # t => pc'[u] = pc[u]
      /\ sup_exceptState'[asid[t]] = p
      /\ \A a \in Asid : a # asid[t] => sup_exceptState'[a] = sup_exceptState[a]
      /\ UNCHANGED <<sup_privatePgTbl, page, doubled>>
  BY PagerAssumption DEF PageFault, Moves, tables, PagerTypeOK
<1>2. ~sup_privatePgTbl[Mine(t, p)].valid
  BY DEF PageFault, TlbInv
<1>3. \A u \in Client \ {t} : asid[u] = asid[t] => pc[u] = "user"
  BY DEF PageFault
<1>4. ASSUME NEW u \in Client, pc'[u] \in Faulting
      PROVE  ~sup_privatePgTbl'[Mine(u, sup_exceptState'[asid[u]])].valid
  <2>1. CASE u = t
    BY <1>1, <1>2, <2>1
  <2>2. CASE u # t
    <3>1. pc[u] \in Faulting /\ pc[u] # "user"
      BY <1>1, <1>4, <2>2 DEF Faulting
    <3>2. asid[u] # asid[t] /\ asid[u] \in Asid
      BY <1>3, <2>2, <3>1, PagerAssumption
    <3>3. QED
      BY <1>1, <3>1, <3>2 DEF FaultInv
  <2>3. QED
    BY <2>1, <2>2
<1>5. ASSUME NEW u \in Client, pc'[u] \in Holding
      PROVE  ~sup_privatePgTbl'[Mine(u, page'[u])].valid
  <2>1. u # t /\ pc[u] \in Holding
    BY <1>1, <1>5 DEF Holding, Working
  <2>2. QED
    BY <1>1, <2>1 DEF FaultInv
<1>6. ASSUME NEW u \in Client, NEW w \in Client,
             asid[u] = asid[w], pc'[u] # "user", pc'[w] # "user"
      PROVE  u = w
  BY <1>1, <1>3, <1>6 DEF FaultInv
<1>7. QED
  BY <1>1, <1>4, <1>5, <1>6 DEF FaultInv, Mine

\* vmSupport.c: while no two clients of an address space are in the pager at
\* once, what a client misses stays missing until the client has brought it.
LEMMA FaultStep ==
  ASSUME PagerTypeOK, PlaceInv, TlbInv, Settled, FaultInv, [PagerNext]_pagerVars,
         ~Trapped', ~overlap'
  PROVE  FaultInv'
<1> USE DEF ClientAt, Faulting, Holding, Working
<1>1. CASE UNCHANGED <<pc, page, sup_privatePgTbl, sup_exceptState, doubled>>
  BY <1>1 DEF FaultInv, Mine
<1>2. CASE UNCHANGED pagerVars
  BY <1>1, <1>2 DEF pagerVars, tables, support, clients
<1>3. ASSUME NEW t \in Client, User(t) PROVE FaultInv'
  <2> PICK p \in Page : \/ uTLB_RefillHandler(t, p) \/ PageFault(t, p) \/ Load(t, p)
                        \/ \E v \in Val : Store(t, p, v)
    BY <1>3 DEF User
  <2>1. CASE PageFault(t, p)
    BY <2>1, PageFaults
  <2>2. CASE ~PageFault(t, p)
    BY <1>1, <2>2 DEF uTLB_RefillHandler, Load, Store, tables, clients, support
  <2>3. QED
    BY <2>1, <2>2
<1>4. ASSUME NEW t \in Client, NEW from, NEW to, Moves(t, from, to), from # "user",
             to \in ClientAt, to \in Faulting => from \in Faulting,
             to \in Holding => from \in Holding,
             \A u \in Client : u # t => page'[u] = page[u],
             to \in Holding => page'[t] = page[t],
             UNCHANGED <<sup_privatePgTbl, sup_exceptState, doubled>>
      PROVE  FaultInv'
  <2> HIDE DEF ClientAt, Faulting, Holding
  <2>1. QED
    BY <1>4, SameFaults DEF Moves
<1>5. ASSUME NEW t \in Client, pager(t) PROVE FaultInv'
  <2>1. CASE GetSupport(t) \/ AskSwapPool(t) \/ EnterSwapPool(t) \/ LeaveSwapPool(t)
    BY <1>4, <2>1 DEF GetSupport, AskSwapPool, EnterSwapPool, LeaveSwapPool, tables,
      support
  <2>2. CASE FollowsNull(t)
    <3>1. Moves(t, pc[t], "null") /\ pc[t] # "user"
      BY <2>2 DEF FollowsNull, Follows, Moves
    <3>2. UNCHANGED <<page, sup_privatePgTbl, sup_exceptState, doubled>>
      BY <2>2 DEF FollowsNull, tables, support
    <3>3. QED
      BY <1>4, <3>1, <3>2
  <2>3. CASE ChooseFrame(t)
    BY <2>3, ChooseFaults
  <2>4. CASE UnmapVictim(t)
    <3> DEFINE k == swap_pool[frame[t]]
    <3>1. /\ k \in Key /\ pc[t] = "unmap" /\ pc' = [pc EXCEPT ![t] = "write"]
          /\ ~sup_privatePgTbl'[k].valid
          /\ \A j \in Key : j # k => sup_privatePgTbl'[j] = sup_privatePgTbl[j]
          /\ page' = page
      BY <2>4, Victim
    <3> HIDE DEF k
    <3>2. UNCHANGED <<sup_exceptState, doubled>>
      BY <2>4 DEF UnmapVictim, support
    <3>3. \A j \in Key : ~sup_privatePgTbl[j].valid => ~sup_privatePgTbl'[j].valid
      BY <3>1
    <3>4. /\ pc'[t] = "write"
          /\ \A u \in Client : u # t => pc'[u] = pc[u]
      BY <3>1 DEF PagerTypeOK
    <3>5. /\ \A u \in Client : pc'[u] # "user" => pc[u] # "user"
          /\ \A u \in Client : pc'[u] \in Holding => pc[u] \in Holding
          /\ \A u \in Client : pc'[u] \in Faulting => pc[u] \in Faulting
      BY <3>1, <3>4
    <3> HIDE DEF Faulting, Holding
    <3>6. \A u \in Client : pc'[u] \in Holding =>
            ~sup_privatePgTbl'[Mine(u, page'[u])].valid
      BY <3>1, <3>3, <3>5 DEF PlaceInv, FaultInv
    <3>7. \A u \in Client : pc'[u] \in Faulting =>
            ~sup_privatePgTbl'[Mine(u, sup_exceptState'[asid[u]])].valid
      BY <3>2, <3>3, <3>5 DEF PlaceInv, FaultInv
    <3>8. QED
      BY <3>2, <3>5, <3>6, <3>7 DEF FaultInv, Mine
  <2>5. CASE writeBackingStore(t)
    <3>1. Moves(t, "write", "read")
      BY <2>5 DEF writeBackingStore, Moves, Trapped, PagerTypeOK
    <3>2. UNCHANGED <<page, sup_privatePgTbl, sup_exceptState, doubled>>
      BY <2>5 DEF writeBackingStore, tables, support
    <3>3. QED
      BY <1>4, <3>1, <3>2
  <2>6. CASE readBackingStore(t)
    <3>1. Moves(t, "read", "update")
      BY <2>6 DEF readBackingStore, Moves, Trapped, PagerTypeOK
    <3>2. ~sup_privatePgTbl[Mine(t, page[t])].valid
      BY <3>1 DEF FaultInv, Moves
    <3>3. doubled' = doubled
      <4>1. doubled' = (doubled \/ sup_privatePgTbl[Mine(t, page[t])].valid)
        BY <2>6, <3>1 DEF readBackingStore, Moves, PagerTypeOK
      <4>2. QED
        BY <3>2, <4>1 DEF FaultInv, PagerTypeOK
    <3>4. UNCHANGED <<page, sup_privatePgTbl, sup_exceptState>>
      BY <2>6 DEF readBackingStore, tables, support
    <3>5. QED
      BY <1>4, <3>1, <3>3, <3>4
  <2>7. CASE UpdateTables(t)
    BY <2>7, UpdateFaults
  <2>8. CASE ResumeClient(t)
    <3>1. /\ Moves(t, "resume", "user")
          /\ \A u \in Client : u # t => page'[u] = page[u]
          /\ UNCHANGED <<sup_privatePgTbl, sup_exceptState, doubled>>
      BY <2>8 DEF ResumeClient, tables, support, PagerTypeOK
    <3>2. QED
      BY <1>4, <3>1
  <2>9. CASE TrapClient(t)
    BY <2>9 DEF TrapClient, Moves, Trapped, PagerTypeOK
  <2>10. QED
    BY <1>5, <2>1, <2>2, <2>3, <2>4, <2>5, <2>6, <2>7, <2>8, <2>9 DEF pager
<1>6. QED
  BY <1>2, <1>3, <1>5, Steps

\* vmSupport.c:105: clients that have met in the pager have met.
LEMMA OverlapStays == overlap /\ [PagerNext]_pagerVars => overlap'
<1> SUFFICES ASSUME overlap, [PagerNext]_pagerVars PROVE overlap'
  OBVIOUS
<1>1. CASE UNCHANGED pagerVars
  BY <1>1 DEF pagerVars
<1>2. ASSUME NEW t \in Client, User(t) PROVE overlap'
  BY <1>2 DEF User, uTLB_RefillHandler, PageFault, Load, Store
<1>3. ASSUME NEW t \in Client, pager(t) PROVE overlap'
  BY <1>3 DEF pager, GetSupport, FollowsNull, AskSwapPool, EnterSwapPool, ChooseFrame,
    UnmapVictim, writeBackingStore, readBackingStore, UpdateTables, LeaveSwapPool,
    ResumeClient, TrapClient
<1>4. QED
  BY <1>1, <1>2, <1>3, Steps

\* The inductive invariant of the pager.
LEMMA PagerStep == PagerInv /\ [PagerNext]_pagerVars => PagerInv'
<1> SUFFICES ASSUME PagerInv, [PagerNext]_pagerVars PROVE PagerInv'
  OBVIOUS
<1>1. CASE UNCHANGED pagerVars
  BY <1>1 DEF PagerInv, PagerTypeOK, PlaceInv, TlbInv, Settled, PoolInv, TableInv,
    WorkInv, Tidy, FaultInv, Trapped, Followed, Taken, Mine, pagerVars, tables,
    contents, support, clients
<1>2. CASE PagerNext
  <2>1. PagerTypeOK' /\ PlaceInv' /\ TlbInv'
    BY TypeStep, PlaceStep, TlbStep DEF PagerInv
  <2>2. Followed /\ ~doubled
    BY <1>2, Steps DEF Followed
  <2>3. ~Trapped' => ~Trapped
    BY TrappedStays DEF PagerInv
  <2>4. ~Trapped' /\ Followed' => Settled'
    BY <2>2, <2>3, SettledStep DEF PagerInv
  <2>5. ASSUME ~Trapped', ~doubled' PROVE Tidy'
    <3>1. CASE Followed'
      <4>1. PlaceInv' /\ Settled'
        BY <2>1, <2>4, <2>5, <3>1
      <4>2. (PlaceInv /\ Settled => Tidy)'
        BY SettledTidy, PTL
      <4>3. QED
        BY <4>1, <4>2
    <3>2. CASE ~Followed'
      <4>1. UNCHANGED <<swap_pool, sup_privatePgTbl>>
        BY <2>2, <2>5, <3>2, NullStep DEF PagerInv
      <4>2. QED
        BY <2>2, <2>3, <2>5, <4>1 DEF PagerInv, Tidy
    <3>3. QED
      BY <3>1, <3>2
  <2>6. ~Trapped' /\ ~overlap' => FaultInv'
    BY <2>2, <2>3, FaultStep, OverlapStays DEF PagerInv
  <2>7. QED
    BY <2>1, <2>4, <2>5, <2>6 DEF PagerInv
<1>3. QED
  BY <1>1, <1>2

\* vmSupport.c: whoever has the mutex is alone with the swap pool; swap pool, page
\* tables and clients agree until a transfer fails or a page is read twice; and no
\* page is read twice while no two clients of an address space are in the pager.
THEOREM PagerInvariant == PagerSpec => []PagerInv
<1>1. PagerInit => PagerInv
  BY PagerInitInv
<1>2. PagerInv /\ [PagerNext]_pagerVars => PagerInv'
  BY PagerStep
<1>3. QED
  BY <1>1, <1>2, PTL DEF PagerSpec

\* vmSupport.c:126-169: a valid page is in the frame that is assigned to it until a
\* transfer fails or a page is read twice, and the TLB has what the table has.
THEOREM Agreement == PagerSpec => []TablesAgree
<1>1. PagerInv => TablesAgree
  BY DEF PagerInv, TablesAgree, Tidy, TlbInv
<1>2. QED
  BY <1>1, PagerInvariant, PTL

\* vmSupport.c:115-169: although nobody looks again whether the page has arrived,
\* it takes two processes of one address space in the pager at once, or a failed
\* transfer, for a page in memory to be read again, or to be in two frames.
THEOREM OneFrame == PagerSpec => []OneFrameEach
<1>1. PagerInv => OneFrameEach
  BY DEF PagerInv, OneFrameEach, Tidy, FaultInv
<1>2. QED
  BY <1>1, PagerInvariant, PTL
-----------------------------------------------------------------------------
\* A step that changes neither memory nor tables, and neither begins nor ends
\* the write of a page.
LEMMA SameContents ==
  ASSUME UNCHANGED <<swap_pool, sup_privatePgTbl, ram, flash>>,
         \A u \in Client : pc'[u] = "write" <=> pc[u] = "write",
         \A u \in Client : pc[u] = "write" => frame'[u] = frame[u],
         NEW k \in Key
  PROVE  Contents(k)' = Contents(k)
<1>1. InFrame(k)' <=> InFrame(k)
  BY DEF InFrame
<1>2. QED
  BY <1>1 DEF Contents

\* vmSupport.c:126-137: a page that is unmapped is still in its frame.
LEMMA UnmapContents ==
  ASSUME PagerTypeOK, PlaceInv, Settled, NEW t \in Client, UnmapVictim(t),
         NEW j \in Key
  PROVE  Contents(j)' = Contents(j)
<1> DEFINE f == frame[t]
           k == swap_pool[f]
<1>1. /\ f \in Frame /\ k \in Key
      /\ pc[t] = "unmap" /\ pc' = [pc EXCEPT ![t] = "write"]
      /\ sup_privatePgTbl[k].valid /\ sup_privatePgTbl[k].frame = f
      /\ sup_privatePgTbl'[k].frame = f
      /\ \A i \in Key : i # k => sup_privatePgTbl'[i] = sup_privatePgTbl[i]
      /\ UNCHANGED <<swap_pool, ram, flash, frame>>
      /\ \A u \in Client : u # t => pc[u] \notin Inside
  BY Victim
<1>2. pc'[t] = "write" /\ \A u \in Client : u # t => pc'[u] = pc[u] /\ pc'[u] # "write"
  BY <1>1 DEF PagerTypeOK, Inside
<1>3. CASE j = k
  <2>1. InFrame(j)' /\ InFrame(j)
    BY <1>1, <1>2, <1>3 DEF InFrame
  <2>2. QED
    BY <1>1, <1>3, <2>1 DEF Contents
<1>4. CASE j # k
  <2>1. \A u \in Client : ~(pc[u] = "write" /\ swap_pool[frame[u]] = j)
    BY <1>1, <1>2
  <2>2. \A u \in Client : ~(pc'[u] = "write" /\ swap_pool'[frame'[u]] = j)
    BY <1>1, <1>2, <1>4
  <2>3. InFrame(j)' <=> InFrame(j)
    BY <1>1, <1>4, <2>1, <2>2 DEF InFrame
  <2>4. QED
    BY <1>1, <1>4, <2>3 DEF Contents
<1>5. QED
  BY <1>3, <1>4

\* vmSupport.c:139-141: a page that is written back is on the flash device.
LEMMA WriteContents ==
  ASSUME PagerTypeOK, PlaceInv, Settled, NEW t \in Client,
         writeBackingStore(t), ~Trapped', NEW j \in Key
  PROVE  Contents(j)' = Contents(j)
<1> DEFINE f == frame[t]
           k == swap_pool[f]
<1>1. /\ pc[t] = "write" /\ pc' = [pc EXCEPT ![t] = "read"]
      /\ flash' = [flash EXCEPT ![k] = ram[f]]
      /\ UNCHANGED <<swap_pool, sup_privatePgTbl, ram, frame>>
  BY DEF writeBackingStore, Moves, Trapped, tables, PagerTypeOK
<1>2. /\ pc'[t] = "read"
      /\ \A u \in Client : u # t => pc'[u] = pc[u] /\ pc[u] # "write"
  BY <1>1, Sole DEF Inside, PagerTypeOK
<1>3. k \in Key /\ ~sup_privatePgTbl[k].valid /\ sup_privatePgTbl[k].frame = f
  BY <1>1 DEF Settled, WorkInv, Working, Holding, PlaceInv, PagerTypeOK
<1>4. \A u \in Client : pc'[u] # "write"
  BY <1>2
<1>5. CASE j = k
  <2>1. InFrame(j) /\ ~InFrame(j)'
    BY <1>1, <1>3, <1>4, <1>5 DEF InFrame
  <2>2. flash'[k] = ram[f]
    BY <1>1, <1>3 DEF PagerTypeOK
  <2>3. QED
    BY <1>1, <1>3, <1>5, <2>1, <2>2 DEF Contents
<1>6. CASE j # k
  <2>1. InFrame(j)' <=> InFrame(j)
    BY <1>1, <1>2, <1>4, <1>6 DEF InFrame
  <2>2. flash'[j] = flash[j]
    BY <1>1, <1>6 DEF PagerTypeOK
  <2>3. QED
    BY <1>1, <2>1, <2>2 DEF Contents
<1>7. QED
  BY <1>5, <1>6

\* vmSupport.c:145-146: a page is read into a frame that is nobody's.
LEMMA ReadContents ==
  ASSUME PagerTypeOK, PlaceInv, Settled, NEW t \in Client,
         readBackingStore(t), ~Trapped', NEW j \in Key
  PROVE  Contents(j)' = Contents(j)
<1>1. /\ pc[t] = "read" /\ pc' = [pc EXCEPT ![t] = "update"]
      /\ ram' = [ram EXCEPT ![frame[t]] = flash[Mine(t, page[t])]]
      /\ UNCHANGED <<swap_pool, sup_privatePgTbl, flash, frame>>
  BY DEF readBackingStore, Moves, Trapped, tables, PagerTypeOK
<1>2. /\ pc'[t] = "update"
      /\ \A u \in Client : u # t => pc'[u] = pc[u] /\ pc[u] # "write"
  BY <1>1, Sole DEF Inside, PagerTypeOK
<1>3. \A u \in Client : pc[u] # "write" /\ pc'[u] # "write"
  BY <1>1, <1>2
<1>4. InFrame(j) <=> sup_privatePgTbl[j].valid
  BY <1>3 DEF InFrame
<1>5. InFrame(j)' <=> sup_privatePgTbl'[j].valid
  BY <1>3 DEF InFrame
<1>6. sup_privatePgTbl[j].valid =>
        sup_privatePgTbl[j].frame \in Frame /\ sup_privatePgTbl[j].frame # frame[t]
  BY <1>1 DEF Settled, TableInv, Taken, Working
<1>7. sup_privatePgTbl[j].valid =>
        ram'[sup_privatePgTbl[j].frame] = ram[sup_privatePgTbl[j].frame]
  BY <1>1, <1>6 DEF PagerTypeOK
<1>8. QED
  BY <1>1, <1>4, <1>5, <1>7 DEF Contents

\* vmSupport.c:153-169: a page that arrives is what was read.
LEMMA UpdateContents ==
  ASSUME PagerTypeOK, PlaceInv, Settled, NEW t \in Client, UpdateTables(t),
         NEW j \in Key
  PROVE  Contents(j)' = Contents(j)
<1> DEFINE f == frame[t]
           k == Mine(t, page[t])
<1>1. /\ f \in Frame /\ k \in Key
      /\ pc[t] = "update" /\ pc' = [pc EXCEPT ![t] = "leave"]
      /\ ~sup_privatePgTbl[k].valid
      /\ sup_privatePgTbl'[k].valid /\ sup_privatePgTbl'[k].frame = f
      /\ \A i \in Key : i # k => sup_privatePgTbl'[i] = sup_privatePgTbl[i]
      /\ UNCHANGED <<ram, flash, page, frame>>
      /\ \A u \in Client : u # t => pc[u] \notin Inside
      /\ ram[f] = flash[k]
  BY Arrival
<1> HIDE DEF f, k
<1>2. \A u \in Client : pc[u] # "write" /\ pc'[u] # "write"
  BY <1>1 DEF PagerTypeOK, Inside
<1>3. InFrame(j) <=> sup_privatePgTbl[j].valid
  BY <1>2 DEF InFrame
<1>4. InFrame(j)' <=> sup_privatePgTbl'[j].valid
  BY <1>2 DEF InFrame
<1>5. QED
  BY <1>1, <1>3, <1>4 DEF Contents

\* A store changes its own page and no other.
LEMMA StoreContents ==
  ASSUME PagerTypeOK, PlaceInv, TlbInv, Settled,
         NEW t \in Client, NEW p \in Page, NEW v \in Val, Store(t, p, v),
         NEW j \in Key
  PROVE  Contents(j)' = IF j = Mine(t, p) THEN v ELSE Contents(j)
<1> DEFINE k == Mine(t, p)
           f == sup_privatePgTbl[k].frame
<1>1. /\ k \in Key /\ sup_privatePgTbl[k].valid
      /\ ram' = [ram EXCEPT ![f] = v]
      /\ UNCHANGED <<swap_pool, sup_privatePgTbl, tlb, flash, pc, page, frame>>
  BY DEF Store, Hits, TlbInv, tables, clients
<1>2. /\ f \in Frame /\ swap_pool[f] = k
      /\ \A u \in Client : pc[u] \in Working => frame[u] # f
  BY <1>1 DEF Settled, TableInv, Taken
<1>3. InFrame(j)' <=> InFrame(j)
  BY <1>1 DEF InFrame
<1>4. CASE j = k
  <2>1. InFrame(k) /\ ram'[f] = v
    BY <1>1, <1>2 DEF InFrame, PagerTypeOK
  <2>2. QED
    BY <1>1, <1>3, <1>4, <2>1 DEF Contents
<1>5. CASE j # k
  <2>1. ASSUME InFrame(j)
        PROVE  /\ sup_privatePgTbl[j].frame \in Frame
               /\ sup_privatePgTbl[j].frame # f
    <3>1. CASE sup_privatePgTbl[j].valid
      BY <1>2, <1>5, <3>1 DEF Settled, TableInv
    <3>2. ASSUME NEW u \in Client, pc[u] = "write", swap_pool[frame[u]] = j
          PROVE  /\ sup_privatePgTbl[j].frame \in Frame
                 /\ sup_privatePgTbl[j].frame # f
      <4>1. sup_privatePgTbl[j].frame = frame[u] /\ frame[u] \in Frame
        BY <3>2 DEF Settled, WorkInv, PlaceInv, Holding, Working
      <4>2. QED
        BY <1>2, <3>2, <4>1 DEF Working
    <3>3. QED
      BY <2>1, <3>1, <3>2 DEF InFrame
  <2> HIDE DEF f
  <2>2. InFrame(j) => ram'[sup_privatePgTbl[j].frame] = ram[sup_privatePgTbl[j].frame]
    BY <1>1, <1>2, <2>1 DEF PagerTypeOK
  <2>3. QED
    BY <1>1, <1>3, <1>5, <2>2 DEF Contents
<1>6. QED
  BY <1>1, <1>4, <1>5

\* A load returns what its own page contains, wherever the page is.
LEMMA LoadContents ==
  ASSUME PagerTypeOK, TlbInv, NEW t \in Client, NEW p \in Page, Load(t, p)
  PROVE  /\ Mine(t, p) \in Key
         /\ access' = [op |-> "load", cell |-> Mine(t, p), val |-> Contents(Mine(t, p))]
<1>1. /\ Mine(t, p) \in Key
      /\ tlb[Mine(t, p)] = sup_privatePgTbl[Mine(t, p)]
      /\ sup_privatePgTbl[Mine(t, p)].valid
  BY DEF Load, Hits, TlbInv
<1>2. QED
  BY <1>1 DEF Load, Accesses, Contents, InFrame

\* No step of the operating system changes what a page contains.
LEMMA SystemStep ==
  ASSUME PagerTypeOK, PlaceInv, Settled, NEW t \in Client, ~Trapped',
         Unseen(t), NEW j \in Key
  PROVE  Contents(j)' = Contents(j)
<1>1. ASSUME NEW p \in Page, uTLB_RefillHandler(t, p) \/ PageFault(t, p)
      PROVE  Contents(j)' = Contents(j)
  <2>1. /\ UNCHANGED <<swap_pool, sup_privatePgTbl, ram, flash, frame>>
        /\ \/ pc' = pc
           \/ pc[t] = "user" /\ pc' = [pc EXCEPT ![t] = "fault"]
    BY <1>1 DEF uTLB_RefillHandler, PageFault, Moves, tables, contents, clients
  <2>2. QED
    BY <2>1, SameContents DEF PagerTypeOK
<1>2. ASSUME NEW from, NEW to, from # "write", to # "write",
             Moves(t, from, to),
             UNCHANGED <<swap_pool, sup_privatePgTbl, ram, flash>>,
             \A u \in Client : u # t => frame'[u] = frame[u]
      PROVE  Contents(j)' = Contents(j)
  BY <1>2, SameContents DEF Moves, PagerTypeOK
<1>3. CASE \/ GetSupport(t) \/ AskSwapPool(t) \/ EnterSwapPool(t) \/ LeaveSwapPool(t)
           \/ TrapClient(t)
  BY <1>2, <1>3 DEF GetSupport, AskSwapPool, EnterSwapPool, LeaveSwapPool,
    TrapClient, tables, contents
<1>4. CASE FollowsNull(t)
  <2>1. Moves(t, pc[t], "null") /\ pc[t] # "write"
    BY <1>4 DEF FollowsNull, Follows, Moves
  <2>2. UNCHANGED <<swap_pool, sup_privatePgTbl, ram, flash, frame>>
    BY <1>4 DEF FollowsNull, tables, contents
  <2>3. QED
    BY <1>2, <2>1, <2>2
<1>5. CASE ChooseFrame(t)
  <2>1. PICK f \in Frame :
          /\ Moves(t, "choose", IF swap_pool[f] = NULL THEN "read" ELSE "unmap")
          /\ frame' = [frame EXCEPT ![t] = f]
          /\ UNCHANGED <<tables, contents>>
    BY <1>5 DEF ChooseFrame
  <2>2. QED
    BY <1>2, <2>1 DEF tables, contents, PagerTypeOK
<1>6. CASE ResumeClient(t)
  BY <1>2, <1>6 DEF ResumeClient, tables, contents, PagerTypeOK
<1>7. CASE UnmapVictim(t)
  BY <1>7, UnmapContents
<1>8. CASE writeBackingStore(t)
  BY <1>8, WriteContents
<1>9. CASE readBackingStore(t)
  BY <1>9, ReadContents
<1>10. CASE UpdateTables(t)
  BY <1>10, UpdateContents
<1>11. QED
  BY <1>1, <1>3, <1>4, <1>5, <1>6, <1>7, <1>8, <1>9, <1>10 DEF Unseen, pager

\* Every step of the pager and its clients is one of memory.
LEMMA MemoryStep ==
  PagerInv /\ [PagerNext]_pagerVars =>
    [~(Trapped \/ doubled) => M!MemoryNext]_(M!memoryVars)
<1> DEFINE mem == [k \in Key |-> Contents(k)]
<1> SUFFICES ASSUME PagerInv, [PagerNext]_pagerVars, ~Trapped, ~doubled
             PROVE  M!MemoryNext \/ UNCHANGED M!memoryVars
  OBVIOUS
<1>1. CASE UNCHANGED pagerVars
  <2>1. \A k \in Key : Contents(k)' = Contents(k)
    BY <1>1, SameContents DEF pagerVars, tables, contents, clients
  <2>2. UNCHANGED <<pc, access, doubled, Trapped>>
    BY <1>1 DEF pagerVars, clients, Trapped
  <2>3. QED
    BY <2>1, <2>2 DEF M!memoryVars
<1>2. CASE Trapped' \/ doubled'
  BY <1>2 DEF M!MemoryNext, M!Broken
<1>3. CASE PagerNext /\ ~Trapped' /\ ~doubled'
  <2>0. PagerTypeOK /\ PlaceInv /\ TlbInv /\ Settled
    BY <1>3 DEF PagerInv, PagerNext
  <2>1. (Trapped \/ doubled)' = (Trapped \/ doubled)
    BY <1>3
  <2>2. PICK t \in Client : (Unseen(t) /\ access' = NULL) \/ Program(t)
    BY <1>3 DEF PagerNext
  <2>3. CASE Unseen(t) /\ access' = NULL
    <3>1. \A k \in Key : Contents(k)' = Contents(k)
      BY <1>3, <2>0, <2>3, SystemStep
    <3>2. mem' = mem
      BY <3>1
    <3>3. QED
      BY <2>1, <2>3, <3>2 DEF M!MemoryNext, M!Hidden
  <2>4. ASSUME NEW p \in Page, Load(t, p) PROVE M!MemoryNext
    <3>1. /\ Mine(t, p) \in Key
          /\ access' = [op |-> "load", cell |-> Mine(t, p), val |-> mem[Mine(t, p)]]
      BY <2>0, <2>4, LoadContents
    <3>2. \A k \in Key : Contents(k)' = Contents(k)
      BY <2>4, SameContents DEF Load, tables, contents, clients
    <3>3. mem' = mem
      BY <3>2
    <3> HIDE DEF mem
    <3>4. M!Load(Mine(t, p))
      BY <2>1, <3>1, <3>3 DEF M!Load, mem
    <3>5. QED
      BY <3>1, <3>4 DEF M!MemoryNext
  <2>5. ASSUME NEW p \in Page, NEW v \in Val, Store(t, p, v) PROVE M!MemoryNext
    <3>1. /\ Mine(t, p) \in Key
          /\ access' = [op |-> "store", cell |-> Mine(t, p), val |-> v]
      BY <2>5 DEF Store, Hits, Accesses
    <3>2. \A j \in Key : Contents(j)' = IF j = Mine(t, p) THEN v ELSE Contents(j)
      BY <2>0, <2>5, StoreContents
    <3>3. mem' = [mem EXCEPT ![Mine(t, p)] = v]
      BY <3>2
    <3>4. M!Store(Mine(t, p), v)
      BY <2>1, <3>1, <3>3 DEF M!Store
    <3>5. QED
      BY <3>1, <3>4 DEF M!MemoryNext
  <2>6. QED
    BY <2>2, <2>3, <2>4, <2>5 DEF Program
<1>4. QED
  BY <1>1, <1>2, <1>3

\* vmSupport.c: virtual memory is memory, until a transfer fails or a page is read
\* twice.  A load of an address returns what was last stored at it, and a store is
\* in the page it names and in no other, wherever the pages are by then.
THEOREM VirtualMemory == PagerSpec => ImplementsMemory
<1>1. PagerInit => M!MemoryInit
  <2> SUFFICES ASSUME PagerInit PROVE M!MemoryInit
    OBVIOUS
  <2>1. /\ ~Trapped /\ ~doubled /\ access = NULL
        /\ \A k \in Key : Contents(k) = Initial[k]
    BY DEF PagerInit, Trapped, Contents, InFrame
  <2>2. [k \in Key |-> Contents(k)] = Initial
    BY <2>1, PagerAssumption
  <2>3. QED
    BY <2>1, <2>2 DEF M!MemoryInit
<1>2. PagerInv /\ [PagerNext]_pagerVars =>
        [~(Trapped \/ doubled) => M!MemoryNext]_(M!memoryVars)
  BY MemoryStep
<1>3. QED
  BY <1>1, <1>2, PagerInvariant, PTL DEF PagerSpec, ImplementsMemory, M!MemorySpec
=============================================================================
