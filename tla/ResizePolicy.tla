---------------------------- MODULE ResizePolicy ----------------------------
(* When and by how much Environment grows its memory map.                    *)
(*                                                                           *)
(* Sources: environment.rs (resize_db_if_necessary, needs_resize,            *)
(* do_resize_locked, headroom_from_ratio, map_occupied_size_inner,           *)
(* set_map_size) with DatabaseResizeSettings, and what mdb.c does with the   *)
(* size: mdb_env_set_mapsize, the allocation of new pages and the meta page. *)
(*                                                                           *)
(* All resizing runs under db_resize_lock, so one caller at a time is in it  *)
(* (module EnvTxns); the write transaction that may be open meanwhile is     *)
(* another thread's.  Sizes are in bytes, of which a page has PageSize.      *)
(* usize has the values 0..Word-1.  The fill fraction, an f32 in the code,   *)
(* is an exact ratio.                                                        *)
EXTENDS Naturals

CONSTANTS
    PageSize, Word,
    MinStep, MaxStep,         \* min_resize_step, max_resize_step
    RatioPercent,             \* default_resize_ratio_percentage
    TriggerNum, TriggerDen,   \* resize_trigger_fraction
    InitialMapSizes,          \* map sizes an environment may be opened with
    FreeSpaces,               \* what the file system may report as free
    Headrooms,                \* arguments of begin_rw_txn and do_resize (bound)
    MapSizes,                 \* arguments of set_map_size (bound)
    MaxAlloc,                 \* pages one allocation asks for (bound)
    None                      \* no headroom given

ASSUME SettingsAssumption ==
    /\ {PageSize, MinStep, MaxStep, RatioPercent, TriggerDen, MaxAlloc} \subseteq Nat \ {0}
    /\ {Word, TriggerNum} \subseteq Nat
    /\ MinStep <= MaxStep
    /\ TriggerNum <= TriggerDen
    /\ Headrooms \subseteq 0..(Word - 1) /\ None \notin Headrooms
    /\ MapSizes \subseteq 0..(Word - 1)
    /\ InitialMapSizes \subseteq (2 * PageSize)..(Word - 1)
    /\ FreeSpaces \subseteq Nat

VARIABLES
    pc,         \* where the holder of db_resize_lock is; idle if nobody, and
                \* panic for good once the lock is poisoned
    writing,    \* is a write transaction open
    map_size,   \* env->me_mapsize
    mm_mapsize, \* map size in the newest meta page
    last_pgno,  \* mm_last_pg of the newest meta page
    next_pgno,  \* mt_next_pgno of the write transaction
    headroom, initial_map_size, required_space

vars == <<pc, writing, map_size, mm_mapsize, last_pgno, next_pgno, headroom,
          initial_map_size, required_space>>
args == <<headroom, initial_map_size, required_space>>

\* headroom_from_ratio computes in u128.
HeadroomFromRatio(size) == (size * RatioPercent) \div 100

\* map_occupied_size_inner
SizeUsed == PageSize * last_pgno

\* Mutant: the headroom is compared with the map and the used size is left out.
NeedsResizeForgetsUsed(h) == h # None /\ map_size < h

\* needs_resize once its checked addition has succeeded.
NeedsResize(h) ==
    \/ h # None /\ map_size < h + SizeUsed
    \/ SizeUsed * TriggerDen > map_size * TriggerNum

Clamp(x, lo, hi) == IF x < lo THEN lo ELSE IF x > hi THEN hi ELSE x

\* Mutant: the size is not rounded to a page.
NotRounded(x) == x
RoundToPage(x) == IF x % PageSize # 0 THEN (x + (PageSize - (x % PageSize))) % Word ELSE x

\* The size do_resize_locked asks for: clamped step, rounded up to a page, and
\* one page more when that would not grow the map.
NewMapSize(inc) ==
    LET new == RoundToPage(map_size + Clamp(inc, MinStep, MaxStep))
    IN  IF new = map_size THEN (new + PageSize) % Word ELSE new

\* Mutant: the two assertions are gone.
ResizePanicsUnasserted(inc) == map_size + Clamp(inc, MinStep, MaxStep) >= Word

\* Its checked addition and its two assertions.
ResizePanics(inc) == \/ map_size + Clamp(inc, MinStep, MaxStep) >= Word
                     \/ NewMapSize(inc) % PageSize # 0
                     \/ NewMapSize(inc) <= map_size

\* Mutants: the size is taken as given; the old size is mapped again.
MapSizeAsGiven(size) == size
MapSizeStale(size) == map_size
\* mdb_env_set_mapsize: 0 asks for the persisted size, and the committed pages
\* stay mapped.
MapSizeFor(size) ==
    LET asked == IF size = 0 THEN mm_mapsize ELSE size
        minsize == (last_pgno + 1) * PageSize
    IN  IF asked < minsize THEN minsize ELSE asked

MaxPg == map_size \div PageSize
-----------------------------------------------------------------------------
\* A new file: two meta pages, and no page beyond them.
Init ==
    /\ pc = "idle"
    /\ writing = FALSE
    /\ map_size \in InitialMapSizes
    /\ mm_mapsize = map_size
    /\ last_pgno = 1
    /\ next_pgno = 2
    /\ headroom = None
    /\ initial_map_size = 0
    /\ required_space = 0

\* begin_rw_txn, up to the loop of resize_db_if_necessary.
BeginRw(h) ==
    /\ pc = "idle"
    /\ headroom' = h
    /\ initial_map_size' = map_size
    /\ LET space == IF h = None THEN HeadroomFromRatio(map_size) ELSE h
       IN  IF space < Word THEN required_space' = space /\ pc' = "check"
           ELSE pc' = "panic" /\ UNCHANGED required_space
    /\ UNCHANGED <<writing, map_size, mm_mapsize, last_pgno, next_pgno>>

\* The loop condition, which reads the meta page without the writer mutex.
CheckSize ==
    /\ pc = "check"
    /\ pc' = IF headroom # None /\ headroom + SizeUsed >= Word THEN "panic"
             ELSE IF NeedsResize(headroom) THEN "resize" ELSE "begin"
    /\ UNCHANGED <<writing, map_size, mm_mapsize, last_pgno, next_pgno>>
    /\ UNCHANGED args

\* do_resize_locked: a panic, an error for lack of space, or the new map once
\* every transaction has finished.
DoResizeLocked(inc, next) ==
    IF ResizePanics(inc) THEN pc' = "panic" /\ UNCHANGED map_size
    ELSE \E free_space \in FreeSpaces :
           IF free_space <= NewMapSize(inc) - map_size
           THEN pc' = "idle" /\ UNCHANGED map_size
           ELSE /\ ~writing
                /\ map_size' = MapSizeFor(NewMapSize(inc))
                /\ pc' = next

\* The loop body, with its early exit on enough growth (an unchecked addition,
\* which wraps around in a release build).
ResizeForTxn ==
    /\ pc = "resize"
    /\ DoResizeLocked(required_space,
           IF NewMapSize(required_space) >= (required_space + initial_map_size) % Word
           THEN "begin" ELSE "check")
    /\ UNCHANGED <<writing, mm_mapsize, last_pgno, next_pgno>>
    /\ UNCHANGED args

\* RwTransaction::new waits for the writer mutex.
RwBegin ==
    /\ pc = "begin"
    /\ ~writing
    /\ writing' = TRUE
    /\ next_pgno' = last_pgno + 1
    /\ pc' = "idle"
    /\ UNCHANGED <<map_size, mm_mapsize, last_pgno>>
    /\ UNCHANGED args

\* mdb_page_alloc of num new pages, refused with MDB_MAP_FULL.
AllocNewPages(num) ==
    /\ writing
    /\ next_pgno + num < MaxPg
    /\ next_pgno' = next_pgno + num
    /\ UNCHANGED <<pc, writing, map_size, mm_mapsize, last_pgno>>
    /\ UNCHANGED args

\* mdb_env_write_meta: the last page, and any increase of the map size.
Commit ==
    /\ writing
    /\ writing' = FALSE
    /\ last_pgno' = next_pgno - 1
    /\ mm_mapsize' = IF mm_mapsize < map_size THEN map_size ELSE mm_mapsize
    /\ UNCHANGED <<pc, map_size, next_pgno>>
    /\ UNCHANGED args

\* An abort, or the commit of a transaction that wrote nothing.
Abort ==
    /\ writing
    /\ writing' = FALSE
    /\ next_pgno' = last_pgno + 1
    /\ UNCHANGED <<pc, map_size, mm_mapsize, last_pgno>>
    /\ UNCHANGED args

\* Environment::do_resize
DoResize(inc) ==
    /\ pc = "idle"
    /\ LET i == IF inc = None THEN HeadroomFromRatio(map_size) ELSE inc
       IN  IF i < Word THEN DoResizeLocked(i, "idle")
           ELSE pc' = "panic" /\ UNCHANGED map_size
    /\ UNCHANGED <<writing, mm_mapsize, last_pgno, next_pgno>>
    /\ UNCHANGED args

\* Environment::set_map_size
SetMapSize(size) ==
    /\ pc = "idle"
    /\ ~writing
    /\ map_size' = MapSizeFor(size)
    /\ UNCHANGED <<pc, writing, mm_mapsize, last_pgno, next_pgno>>
    /\ UNCHANGED args

Next ==
    \/ \E h \in Headrooms \cup {None} : BeginRw(h) \/ DoResize(h)
    \/ \E size \in MapSizes : SetMapSize(size)
    \/ \E num \in 1..MaxAlloc : AllocNewPages(num)
    \/ CheckSize \/ ResizeForTxn \/ RwBegin \/ Commit \/ Abort

Spec == Init /\ [][Next]_vars

\* The resize loop runs on its own, and write transactions end.
FairSpec == Spec /\ WF_vars(CheckSize) /\ WF_vars(ResizeForTxn)
                 /\ WF_vars(RwBegin) /\ WF_vars(Commit \/ Abort)
-----------------------------------------------------------------------------
\* Neither a committed page nor a page of the open write transaction lies
\* outside the map, whatever sizes set_map_size and do_resize are given and
\* however resizes, commits and aborts alternate; and the map never outgrows
\* usize.
UsedFitsMap == /\ map_size < Word
               /\ (last_pgno + 1) * PageSize <= map_size
               /\ writing => next_pgno * PageSize <= map_size

\* Is there room for the caller's headroom beside what needs_resize counts as
\* used (unless the addition in the early exit wraps around)?
HeadroomFree ==
    headroom # None /\ required_space + initial_map_size < Word
        => map_size >= headroom + SizeUsed

\* The loop of begin_rw_txn ends, by its condition or by its early exit, only
\* when the caller's headroom is free at that moment, after any number of
\* clamped steps and while other threads commit.
HeadroomChecked == [][(pc # "begin" /\ pc' = "begin") => HeadroomFree']_vars

\* Every resize of the loop grows the map to a whole number of pages, even when
\* mdb_env_set_mapsize replaces the size it was given.
ResizeGrows ==
    [][(pc = "resize" /\ map_size' # map_size)
         => (map_size' > map_size /\ map_size' % PageSize = 0)]_vars

\* Resizing panics, and poisons the lock for good, only when a size does not fit
\* in usize: the two assertions of do_resize_locked hold otherwise.
PanicOnlyOnOverflow ==
    [][(pc # "panic" /\ pc' = "panic")
         => \/ map_size + MaxStep + PageSize >= Word
            \/ HeadroomFromRatio(map_size) >= Word
            \/ headroom # None /\ headroom + SizeUsed >= Word]_vars

\* begin_rw_txn comes back: the resize loop ends in a transaction, an error or
\* a panic.
ResizeTerminates == (pc \in {"check", "resize", "begin"}) ~> (pc \in {"idle", "panic"})

\* "size_used doesn't include data yet to be committed. This will work only at
\* the beginning of a transaction" (environment.rs:361): the headroom that was
\* found is still free when the write transaction begins.
HeadroomGranted == pc = "begin" /\ ~writing => HeadroomFree
=============================================================================
