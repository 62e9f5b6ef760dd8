------------------------------- MODULE Pager -------------------------------
(***************************************************************************)
(* Virtual memory of phase 3 (vmSupport.c): the page faults of the          *)
(* processes with a support structure, the pager with its swap pool, page   *)
(* tables and backing store, and the TLB refill handler.  The swap mutex is *)
(* Lock, which SwapMutex implements.                                        *)
(*                                                                         *)
(* A client is a process.  The SST and the user process of an address space *)
(* have one support structure (initProc.c:50, sst.c:136): one page table,   *)
(* one sup_exceptState[PGFAULTEXCEPT], and one stack for the pager.  The    *)
(* user process runs on between its SEND to the SST and its RECEIVE, while  *)
(* the SST follows its pointers; so both may have a page fault at once.     *)
(*                                                                         *)
(* The pager may be preempted between any two steps, but not inside its two *)
(* sections with the local timer off (vmSupport.c:127-137, 154-169), which  *)
(* are one step each.                                                       *)
(***************************************************************************)
EXTENDS Integers, FiniteSets, Lock

CONSTANTS
  Asid,      \* the address spaces
  asid,      \* the address space of each client
  Key,       \* the pages in use: <<address space, entry of sup_privatePgTbl>>
  STACK,     \* entry 31, the page of the stack
  FRAMES,    \* the size of swap_pool
  Val,       \* what a page can contain
  Initial,   \* the contents of each block of the backing store at the start
  Written,   \* the pages programs store into: data, and not code
  Failing,   \* the address spaces whose flash device may fail
  NULL

ASSUME PagerAssumption ==
  /\ asid \in [Client -> Asid]
  /\ Key \subseteq Asid \X Nat
  /\ FRAMES \in Nat \ {0}
  /\ Initial \in [Key -> Val] /\ Written \subseteq Key /\ Failing \subseteq Asid
  /\ NULL \notin Key \cup Nat \cup [valid: BOOLEAN, frame: Nat \cup {NULL}]

Page  == {k[2] : k \in Key}
Frame == 0..(FRAMES - 1)
Pte   == [valid: BOOLEAN, frame: Frame \cup {NULL}]

VARIABLES
  swap_pool,      \* the page each frame is assigned to; NULL: sw_asid is -1
  next,           \* static next of replacementAlgorithm
  sup_privatePgTbl, \* the page tables: pte_entryLO of every page
  sup_exceptState,  \* of each address space: the page of the entry_hi in
                    \* sup_exceptState[PGFAULTEXCEPT]
  response,       \* in the frame of pager on the stack of each address space:
                  \* whether it is the support structure, and not NULL
  tlb,            \* the entries of the TLB, or NULL
  ram, flash,     \* the contents of the frames and of the flash devices
  pc,             \* where the clients are
  page, frame,    \* missing_page_number and replacing_frame: on that stack too,
                  \* but only whoever has the mutex writes and reads them
  access,         \* history: the load or store of the last step
  overlap,        \* history: two clients of one address space have been in the
                  \* pager at once
  doubled         \* history: a page has been read that was in memory

tables    == <<swap_pool, sup_privatePgTbl, tlb>>
contents  == <<ram, flash>>
support   == <<sup_exceptState, response>>
clients   == <<pc, page, frame>>
pagerVars == <<st, tables, next, contents, support, clients, access, overlap, doubled>>

ClientAt == {"user", "fault", "known", "asking", "choose", "unmap", "write",
             "read", "update", "leave", "resume", "trap", "dead", "null"}

PagerTypeOK ==
  /\ st \in [Client -> {"out", "waiting", "in"}]
  /\ swap_pool \in [Frame -> Key \cup {NULL}]
  /\ next \in Frame
  /\ sup_privatePgTbl \in [Key -> Pte]
  /\ sup_exceptState \in [Asid -> Page \cup {NULL}]
  /\ response \in [Asid -> BOOLEAN]
  /\ tlb \in [Key -> Pte \cup {NULL}]
  /\ ram \in [Frame -> Val] /\ flash \in [Key -> Val]
  /\ pc \in [Client -> ClientAt]
  /\ page \in [Client -> Page \cup {NULL}]
  /\ frame \in [Client -> Frame \cup {NULL}]
  /\ overlap \in BOOLEAN /\ doubled \in BOOLEAN

\* initProc.c: spawn_sst and the loop over swap_pool in test.
PagerInit ==
  /\ LockInit
  /\ swap_pool = [f \in Frame |-> NULL]
  /\ next = 0
  /\ sup_privatePgTbl = [k \in Key |-> [valid |-> FALSE, frame |-> NULL]]
  /\ sup_exceptState = [a \in Asid |-> NULL]
  /\ response = [a \in Asid |-> FALSE]
  /\ tlb = [k \in Key |-> NULL]
  /\ ram \in [Frame -> Val]
  /\ flash = Initial
  /\ pc = [t \in Client |-> "user"]
  /\ page = [t \in Client |-> NULL]
  /\ frame = [t \in Client |-> NULL]
  /\ access = NULL
  /\ overlap = FALSE /\ doubled = FALSE
-----------------------------------------------------------------------------
Moves(t, from, to) ==
  /\ pc[t] = from
  /\ pc' = [pc EXCEPT ![t] = to]

\* The page p of the address space of t.
Mine(t, p) == <<asid[t], p>>

\* uTLB_RefillHandler: the entry of the page table goes into the TLB, valid or
\* not, at the expense of another one.  p is the index of the entry: 31 for
\* every address that is not in the first 31 pages.
uTLB_RefillHandler(t, p) ==
  LET k == Mine(t, p)
  IN  /\ k \in Key
      /\ pc[t] = "user"
      /\ tlb[k] = NULL
      /\ \E lost \in Key \cup {NULL} :
           tlb' = [l \in Key |-> IF l = k THEN sup_privatePgTbl[k]
                                 ELSE IF l = lost THEN NULL ELSE tlb[l]]
      /\ UNCHANGED <<st, swap_pool, sup_privatePgTbl, next, contents, support,
                     clients, overlap, doubled>>

\* Loads and stores go through a valid entry of the TLB, to the frame it has.
Hits(t, p) ==
  /\ Mine(t, p) \in Key
  /\ pc[t] = "user"
  /\ tlb[Mine(t, p)] # NULL /\ tlb[Mine(t, p)].valid

Accesses(op, t, p, v) == access' = [op |-> op, cell |-> Mine(t, p), val |-> v]

Load(t, p) ==
  /\ Hits(t, p)
  /\ Accesses("load", t, p, ram[tlb[Mine(t, p)].frame])
  /\ UNCHANGED <<st, tables, next, contents, support, clients, overlap, doubled>>

Store(t, p, v) ==
  /\ Hits(t, p) /\ Mine(t, p) \in Written
  /\ ram' = [ram EXCEPT ![tlb[Mine(t, p)].frame] = v]
  /\ Accesses("store", t, p, v)
  /\ UNCHANGED <<st, tables, next, flash, support, clients, overlap, doubled>>

\* An access through an entry that is not valid: PassUp_Or_Die saves the state
\* in the support structure, over what is there, and the client goes on in
\* pager, whose first line sets response to NULL.
PageFault(t, p) ==
  LET k == Mine(t, p)
  IN  /\ k \in Key
      /\ Moves(t, "user", "fault")
      /\ tlb[k] # NULL /\ ~tlb[k].valid
      /\ sup_exceptState' = [sup_exceptState EXCEPT ![asid[t]] = p]
      /\ response' = [response EXCEPT ![asid[t]] = FALSE]
      /\ overlap' = (overlap \/ \E u \in Client \ {t} :
                                   asid[u] = asid[t] /\ pc[u] # "user")
      /\ UNCHANGED <<st, tables, next, contents, page, frame, doubled>>
-----------------------------------------------------------------------------
\* The pager.  GETSUPPORTPTR: the SSI answers.
GetSupport(t) ==
  /\ Moves(t, "fault", "known")
  /\ response' = [response EXCEPT ![asid[t]] = TRUE]
  /\ UNCHANGED <<st, tables, next, contents, sup_exceptState, page, frame,
                 overlap, doubled>>

\* Where the next step of pager follows response.
Follows(t) == pc[t] \in {"known", "choose", "read", "update", "resume"}

\* It is NULL: another client has entered pager on the same stack, and has not
\* got its answer of the SSI yet.
FollowsNull(t) ==
  /\ Follows(t) /\ ~response[asid[t]]
  /\ pc' = [pc EXCEPT ![t] = "null"]
  /\ UNCHANGED <<st, tables, next, contents, support, page, frame, overlap, doubled>>

\* SEND and RECEIVE to obtain the mutex.
AskSwapPool(t) ==
  /\ Moves(t, "known", "asking")
  /\ response[asid[t]]
  /\ Ask(t)
  /\ UNCHANGED <<tables, next, contents, support, page, frame, overlap, doubled>>

EnterSwapPool(t) ==
  /\ Moves(t, "asking", "choose")
  /\ Enter(t)
  /\ UNCHANGED <<tables, next, contents, support, page, frame, overlap, doubled>>

\* The first free frame, or the next one in turn.
replacementAlgorithm(f) ==
  \/ /\ swap_pool[f] = NULL
     /\ \A g \in Frame : swap_pool[g] = NULL => f <= g
     /\ UNCHANGED next
  \/ /\ \A g \in Frame : swap_pool[g] # NULL
     /\ f = next /\ next' = (next + 1) % FRAMES

\* The missing page is that of the saved state, whoever has saved it.
ChooseFrame(t) ==
  /\ response[asid[t]]
  /\ page' = [page EXCEPT ![t] = sup_exceptState[asid[t]]]
  /\ \E f \in Frame :
       /\ replacementAlgorithm(f)
       /\ Moves(t, "choose", IF swap_pool[f] = NULL THEN "read" ELSE "unmap")
       /\ frame' = [frame EXCEPT ![t] = f]
  /\ UNCHANGED <<st, tables, contents, support, overlap, doubled>>

\* Mutant: the TLB keeps its entry.
ProbeNothing(k, e) == tlb

\* TLBP, TLBWI: the TLB follows the page table, if it has the entry.
Probe(k, e) == [tlb EXCEPT ![k] = IF tlb[k] = NULL THEN NULL ELSE e]

\* The valid bit of the page in the frame is inverted.
UnmapVictim(t) ==
  LET k == swap_pool[frame[t]]
      e == [sup_privatePgTbl[k] EXCEPT !.valid = ~@]
  IN  /\ Moves(t, "unmap", "write")
      /\ sup_privatePgTbl' = [sup_privatePgTbl EXCEPT ![k] = e]
      /\ tlb' = Probe(k, e)
      /\ UNCHANGED <<st, swap_pool, next, contents, support, page, frame,
                     overlap, doubled>>

\* writeBackingStore names the block by pte_entryHI: the number of the page,
\* but 0x3FFFF for the stack, a block no flash device has.
Writable(k) == k[2] # STACK

writeBackingStore(t) ==
  LET k == swap_pool[frame[t]]
  IN  \/ /\ Moves(t, "write", "read")
         /\ Writable(k)
         /\ flash' = [flash EXCEPT ![k] = ram[frame[t]]]
         /\ UNCHANGED <<st, tables, next, ram, support, page, frame, overlap, doubled>>
      \/ /\ Moves(t, "write", "trap")
         /\ k[1] \in Failing \/ ~Writable(k)
         /\ UNCHANGED <<st, tables, next, contents, support, page, frame,
                        overlap, doubled>>

\* Nobody has looked whether the page has arrived since the fault.
readBackingStore(t) ==
  LET k == Mine(t, page[t])
  IN  /\ response[asid[t]]
      /\ \/ /\ Moves(t, "read", "update")
            /\ ram' = [ram EXCEPT ![frame[t]] = flash[k]]
            /\ doubled' = (doubled \/ sup_privatePgTbl[k].valid)
            /\ UNCHANGED flash
         \/ /\ Moves(t, "read", "trap")
            /\ asid[t] \in Failing
            /\ UNCHANGED <<contents, doubled>>
      /\ UNCHANGED <<st, tables, next, support, page, frame, overlap>>

\* Mutant: the swap pool still names the page that was there.
UpdateTablesOnly(t) ==
  LET k == Mine(t, page[t])
      e == [valid |-> TRUE, frame |-> frame[t]]
  IN  /\ Moves(t, "update", "leave")
      /\ response[asid[t]]
      /\ sup_privatePgTbl' = [sup_privatePgTbl EXCEPT ![k] = e]
      /\ tlb' = Probe(k, e)
      /\ UNCHANGED <<st, swap_pool, next, contents, support, page, frame,
                     overlap, doubled>>

UpdateTables(t) ==
  LET k == Mine(t, page[t])
      e == [valid |-> TRUE, frame |-> frame[t]]
  IN  /\ Moves(t, "update", "leave")
      /\ response[asid[t]]
      /\ sup_privatePgTbl' = [sup_privatePgTbl EXCEPT ![k] = e]
      /\ swap_pool' = [swap_pool EXCEPT ![frame[t]] = k]
      /\ tlb' = Probe(k, e)
      /\ UNCHANGED <<st, next, contents, support, page, frame, overlap, doubled>>

LeaveSwapPool(t) ==
  /\ Moves(t, "leave", "resume")
  /\ Leave(t)
  /\ UNCHANGED <<tables, next, contents, support, page, frame, overlap, doubled>>

\* LDST of the saved state, whoever has saved it: the client goes on with
\* accesses to its address space.  The locals of pager are lost.
ResumeClient(t) ==
  /\ Moves(t, "resume", "user")
  /\ response[asid[t]]
  /\ page' = [page EXCEPT ![t] = NULL]
  /\ frame' = [frame EXCEPT ![t] = NULL]
  /\ UNCHANGED <<st, tables, next, contents, support, overlap, doubled>>

\* TrapExceptionHandlerSupport: the mutex is released and the client ends
\* (SwapMutex has the handler step by step, and the client that does not end:
\* here nothing is promised any more).
TrapClient(t) ==
  /\ Moves(t, "trap", "dead")
  /\ Leave(t)
  /\ UNCHANGED <<tables, next, contents, support, page, frame, overlap, doubled>>

pager(t) ==
  \/ GetSupport(t) \/ FollowsNull(t) \/ AskSwapPool(t) \/ EnterSwapPool(t)
  \/ ChooseFrame(t) \/ UnmapVictim(t) \/ writeBackingStore(t)
  \/ readBackingStore(t) \/ UpdateTables(t) \/ LeaveSwapPool(t)
  \/ ResumeClient(t) \/ TrapClient(t)

\* What a client does without its program seeing anything.
Unseen(t) == pager(t) \/ \E p \in Page : uTLB_RefillHandler(t, p) \/ PageFault(t, p)

Program(t) == \E p \in Page : Load(t, p) \/ \E v \in Val : Store(t, p, v)

\* The model ends at an access through NULL, and when a page that is in memory
\* has been read again.
Followed == ~doubled /\ \A t \in Client : pc[t] # "null"

PagerNext ==
  /\ Followed
  /\ \E t \in Client : \/ Unseen(t) /\ access' = NULL
                       \/ Program(t)

PagerSpec == PagerInit /\ [][PagerNext]_pagerVars
-----------------------------------------------------------------------------
\* Where the page k is: in its frame while it is valid or being written back,
\* on its flash device otherwise.
InFrame(k) ==
  \/ sup_privatePgTbl[k].valid
  \/ \E t \in Client : pc[t] = "write" /\ swap_pool[frame[t]] = k

Contents(k) == IF InFrame(k) THEN ram[sup_privatePgTbl[k].frame] ELSE flash[k]

Trapped == \E t \in Client : pc[t] \in {"trap", "dead"}

M == INSTANCE Memory WITH Cell <- Key, mem <- [k \in Key |-> Contents(k)],
                          failed <- (Trapped \/ doubled)

\* vmSupport.c:114-191: virtual memory is memory.  Through faults, evictions,
\* refills and preemptions a load returns what was last stored at its address,
\* and a store, through whatever entry the TLB has, changes that page and no
\* other; until a transfer has failed or a page in memory has been read again.
ImplementsMemory == M!MemorySpec

\* vmSupport.c:126-169: the swap pool, the page tables and the TLB agree: a
\* valid page is in the frame that is assigned to it (until a transfer has
\* failed or a page in memory has been read again), and the TLB has what the
\* page table has.
TablesAgree ==
  \A k \in Key :
    /\ sup_privatePgTbl[k].valid /\ ~Trapped /\ ~doubled =>
         swap_pool[sup_privatePgTbl[k].frame] = k
    /\ tlb[k] # NULL => tlb[k] = sup_privatePgTbl[k]

\* vmSupport.c:113-169: the pager does not look, once it has the mutex, whether
\* the missing page has arrived.  A page is read while it is in memory, and so
\* in two frames, only after the SST and the user process of one address space
\* have been in the pager at once, or a transfer has failed.
OneFrameEach ==
  \/ overlap \/ Trapped
  \/ /\ ~doubled
     /\ \A f, g \in Frame :
          swap_pool[f] = swap_pool[g] /\ swap_pool[f] # NULL => f = g

\* vmSupport.c:146, "leggi la nuova pagina dal backing store": the page that is
\* read is a new one, that is not in memory.
ReadsNewPage ==
  [][\A t \in Client : pc[t] = "read" /\ pc'[t] = "update" =>
       ~sup_privatePgTbl[Mine(t, page[t])].valid]_pagerVars

\* vmSupport.c:125, "riscrivi la pagina nel backing store": when the pager is
\* done with the write of a page, the backing store has the page.
WrittenBack ==
  [][\A t \in Client : pc[t] = "write" /\ pc'[t] # "write" =>
       flash'[swap_pool[frame[t]]] = ram[frame[t]]]_pagerVars
=============================================================================
