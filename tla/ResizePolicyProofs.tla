------------------------- MODULE ResizePolicyProofs -------------------------
(* Proofs about ResizePolicy, for any page size, any settings and any width   *)
(* of usize.                                                                  *)
EXTENDS ResizePolicy, TLAPS

TypeInv ==
    /\ pc \in {"idle", "check", "resize", "begin", "panic"}
    /\ writing \in BOOLEAN
    /\ map_size \in Nat /\ mm_mapsize \in Nat
    /\ last_pgno \in Nat /\ next_pgno \in Nat
    /\ headroom \in Headrooms \cup {None}
    /\ initial_map_size \in Nat /\ required_space \in Nat

\* The persisted size fits in usize too: set_map_size(0) maps it.
PersistedInv == mm_mapsize < Word

\* The write transaction begins after the last committed page.
WriteInv == writing => next_pgno > last_pgno

\* While the loop of begin_rw_txn runs nobody else begins a write transaction,
\* and the first resize waits for the one that was open: it fits in the map the
\* loop started from, and so does everything committed.
LoopInv ==
    pc \in {"check", "resize"} =>
        /\ headroom # None => required_space = headroom
        /\ (last_pgno + 1) * PageSize <= initial_map_size
        /\ writing => map_size = initial_map_size

IInv == TypeInv /\ UsedFitsMap /\ PersistedInv /\ WriteInv /\ LoopInv

-----------------------------------------------------------------------------
(* Arithmetic. *)

\* As many whole pages as the map has fit in it.
LEMMA PagesFit ==
    ASSUME NEW size \in Nat, NEW p \in Nat \ {0}, NEW n \in Nat, n <= size \div p
    PROVE  n * p <= size
OBVIOUS

\* A multiple of the page size leaves no remainder.
LEMMA MultipleOfPage ==
    ASSUME NEW k \in Nat, NEW p \in Nat \ {0}
    PROVE  (p * k) % p = 0
OBVIOUS

\* A number below the word size is not changed by wrapping around.
LEMMA SmallStays ==
    ASSUME NEW x \in Nat, NEW w \in Nat \ {0}, x < w
    PROVE  x % w = x
OBVIOUS

\* Adding what is missing to a whole page gives whole pages, less than one page
\* further.
LEMMA RoundedUp ==
    ASSUME NEW x \in Nat, NEW p \in Nat \ {0}, x % p # 0
    PROVE  /\ x + (p - (x % p)) \in Nat
           /\ x + (p - (x % p)) > x /\ x + (p - (x % p)) < x + p
           /\ (x + (p - (x % p))) % p = 0
<1>1. x % p \in 0..(p - 1)
  OBVIOUS
<1>2. x \div p \in Nat /\ x = p * (x \div p) + (x % p)
  OBVIOUS
<1>3. x + (p - (x % p)) = p * ((x \div p) + 1)
  BY <1>1, <1>2
<1>4. (p * ((x \div p) + 1)) % p = 0
  BY <1>2, MultipleOfPage
<1> QED BY <1>1, <1>3, <1>4

\* The size that do_resize_locked computes is a value of usize.
LEMMA NewMapSizeType ==
    ASSUME TypeInv, UsedFitsMap, NEW inc \in Nat, ~ResizePanics(inc)
    PROVE  NewMapSize(inc) \in Nat /\ NewMapSize(inc) < Word /\ NewMapSize(inc) > map_size
<1> DEFINE x == map_size + Clamp(inc, MinStep, MaxStep)
<1>1. x \in Nat /\ x < Word
  BY SettingsAssumption DEF TypeInv, Clamp, ResizePanics
<1>2. Word \in Nat \ {0}
  BY SettingsAssumption DEF TypeInv, UsedFitsMap
<1>3. RoundToPage(x) \in Nat /\ RoundToPage(x) < Word
  <2>1. CASE x % PageSize = 0
    BY <1>1, <2>1 DEF RoundToPage
  <2>2. CASE x % PageSize # 0
    <3>1. x + (PageSize - (x % PageSize)) \in Nat
      BY <1>1, <2>2, RoundedUp, SettingsAssumption
    <3>2. (x + (PageSize - (x % PageSize))) % Word \in 0..(Word - 1)
      BY <1>2, <3>1
    <3> QED BY <2>2, <3>2, <1>2 DEF RoundToPage
  <2> QED BY <2>1, <2>2
<1>4. RoundToPage(x) + PageSize \in Nat
  BY <1>3, SettingsAssumption
<1>5. (RoundToPage(x) + PageSize) % Word \in 0..(Word - 1)
  BY <1>2, <1>4
<1>6. NewMapSize(inc) \in Nat /\ NewMapSize(inc) < Word
  BY <1>2, <1>3, <1>5 DEF NewMapSize
<1>7. ~(NewMapSize(inc) <= map_size)
  BY DEF ResizePanics
<1> QED BY <1>6, <1>7 DEF TypeInv

\* What is mapped then is exactly that: mdb_env_set_mapsize has no reason to
\* replace a size above the old one.
LEMMA ResizedTo ==
    ASSUME TypeInv, UsedFitsMap, NEW inc \in Nat, ~ResizePanics(inc)
    PROVE  MapSizeFor(NewMapSize(inc)) = NewMapSize(inc)
<1>1. NewMapSize(inc) \in Nat /\ NewMapSize(inc) > map_size
  BY NewMapSizeType
<1> QED BY <1>1, SettingsAssumption DEF MapSizeFor, TypeInv, UsedFitsMap

\* A size given by the application is raised to what is in use.
LEMMA MappedFits ==
    ASSUME IInv, NEW size \in MapSizes
    PROVE  /\ MapSizeFor(size) \in Nat /\ MapSizeFor(size) < Word
           /\ (last_pgno + 1) * PageSize <= MapSizeFor(size)
<1>1. size \in Nat /\ size < Word
  BY SettingsAssumption
<1>2. (last_pgno + 1) * PageSize \in Nat
  BY SettingsAssumption DEF IInv, TypeInv
<1> QED BY <1>1, <1>2, SettingsAssumption DEF MapSizeFor, IInv, TypeInv, UsedFitsMap, PersistedInv

\* The default headroom is a number.
LEMMA RatioType == TypeInv => HeadroomFromRatio(map_size) \in Nat
BY SettingsAssumption DEF TypeInv, HeadroomFromRatio

\* The effect of do_resize_locked: the map stays, or grows with no write
\* transaction open.
LEMMA ResizeEffect ==
    ASSUME IInv, NEW inc \in Nat, NEW next, DoResizeLocked(inc, next)
    PROVE  \/ map_size' = map_size /\ pc' \in {"idle", "panic"}
           \/ /\ ~writing /\ ~ResizePanics(inc)
              /\ map_size' = NewMapSize(inc) /\ pc' = next
              /\ map_size' \in Nat /\ map_size' < Word /\ map_size' > map_size
<1>1. CASE ResizePanics(inc)
  BY <1>1 DEF DoResizeLocked
<1>2. CASE ~ResizePanics(inc)
  BY <1>2, ResizedTo, NewMapSizeType DEF DoResizeLocked, IInv
<1> QED BY <1>1, <1>2

-----------------------------------------------------------------------------
(* The invariant. *)

\* A new environment satisfies the invariant.
LEMMA InitInv == Init => IInv
<1> SUFFICES ASSUME Init PROVE IInv
  OBVIOUS
<1>1. map_size \in Nat /\ map_size < Word /\ 2 * PageSize <= map_size
  BY SettingsAssumption DEF Init
<1>2. TypeInv
  BY <1>1 DEF Init, TypeInv
<1>3. UsedFitsMap
  BY <1>1, SettingsAssumption DEF Init, UsedFitsMap
<1>4. PersistedInv /\ WriteInv /\ LoopInv
  BY <1>1 DEF Init, PersistedInv, WriteInv, LoopInv
<1> QED BY <1>2, <1>3, <1>4 DEF IInv

\* Every step preserves it.
LEMMA StepInv == IInv /\ [Next]_vars => IInv'
<1> SUFFICES ASSUME IInv, [Next]_vars PROVE IInv'
  OBVIOUS
<1> USE SettingsAssumption DEF IInv, TypeInv, UsedFitsMap, PersistedInv, WriteInv, LoopInv
<1>1. CASE UNCHANGED vars
  BY <1>1 DEF vars
<1>2. ASSUME NEW h \in Headrooms \cup {None}, BeginRw(h) PROVE IInv'
  BY <1>2, RatioType DEF BeginRw
<1>3. ASSUME NEW h \in Headrooms \cup {None}, DoResize(h) PROVE IInv'
  <2> DEFINE i == IF h = None THEN HeadroomFromRatio(map_size) ELSE h
  <2>1. i \in Nat
    BY RatioType
  <2>2. CASE i < Word
    <3>1. DoResizeLocked(i, "idle")
      BY <1>3, <2>2 DEF DoResize
    <3>2. /\ map_size' \in Nat /\ map_size' < Word /\ map_size' >= map_size
          /\ pc' \in {"idle", "panic"} /\ (writing => map_size' = map_size)
      BY <2>1, <3>1, ResizeEffect
    <3> QED BY <1>3, <3>2 DEF DoResize, args
  <2>3. CASE ~(i < Word)
    BY <1>3, <2>3 DEF DoResize, args
  <2> QED BY <2>2, <2>3
<1>4. ASSUME NEW size \in MapSizes, SetMapSize(size) PROVE IInv'
  BY <1>4, MappedFits DEF SetMapSize, args
<1>5. ASSUME NEW num \in 1..MaxAlloc, AllocNewPages(num) PROVE IInv'
  <2>1. next_pgno + num \in Nat /\ next_pgno + num <= map_size \div PageSize
    BY <1>5 DEF AllocNewPages, MaxPg
  <2>2. (next_pgno + num) * PageSize <= map_size
    BY <2>1, PagesFit
  <2> QED BY <1>5, <2>1, <2>2 DEF AllocNewPages, args
<1>6. CASE CheckSize
  BY <1>6 DEF CheckSize, args
<1>7. CASE ResizeForTxn
  <2> DEFINE next == IF NewMapSize(required_space) >= (required_space + initial_map_size) % Word
                     THEN "begin" ELSE "check"
  <2>1. DoResizeLocked(required_space, next)
    BY <1>7 DEF ResizeForTxn
  <2>2. /\ map_size' \in Nat /\ map_size' < Word /\ map_size' >= map_size
        /\ pc' \in {"idle", "panic", "begin", "check"} /\ (writing => pc' \in {"idle", "panic"})
        /\ (writing => map_size' = map_size)
    BY <2>1, ResizeEffect
  <2> QED BY <1>7, <2>2 DEF ResizeForTxn, args
<1>8. CASE RwBegin
  BY <1>8 DEF RwBegin, args
<1>9. CASE Commit
  <2>1. last_pgno' \in Nat /\ last_pgno' + 1 = next_pgno /\ next_pgno * PageSize <= map_size
    BY <1>9 DEF Commit
  <2>2. (last_pgno' + 1) * PageSize <= map_size
    BY <2>1
  <2>3. TypeInv' /\ PersistedInv' /\ WriteInv'
    BY <1>9, <2>1 DEF Commit, args
  <2>4. UsedFitsMap'
    BY <1>9, <2>2 DEF Commit
  <2>5. LoopInv'
    BY <1>9, <2>2 DEF Commit, args
  <2> QED BY <2>3, <2>4, <2>5
<1>10. CASE Abort
  <2>1. /\ UNCHANGED <<pc, map_size, mm_mapsize, last_pgno>>
        /\ UNCHANGED <<headroom, initial_map_size, required_space>>
        /\ writing' = FALSE /\ next_pgno' = last_pgno + 1
    BY <1>10 DEF Abort, args
  <2>2. TypeInv'
    <3>1. next_pgno' \in Nat
      BY <2>1
    <3> QED BY <2>1, <3>1
  <2>3. UsedFitsMap' /\ PersistedInv' /\ WriteInv'
    BY <2>1
  <2>4. LoopInv'
    BY <2>1
  <2> QED BY <2>2, <2>3, <2>4
<1> QED BY <1>1, <1>2, <1>3, <1>4, <1>5, <1>6, <1>7, <1>8, <1>9, <1>10 DEF Next

\* The invariant holds throughout.
LEMMA Invariance == Spec => []IInv
<1> QED BY InitInv, StepInv, PTL DEF Spec

\* Every used page stays mapped, for any page size, any settings, any arguments
\* of set_map_size, do_resize and begin_rw_txn, and any width of usize.
THEOREM UsedStaysMapped == Spec => []UsedFitsMap
<1>1. IInv => UsedFitsMap
  BY DEF IInv
<1> QED BY <1>1, Invariance, PTL

-----------------------------------------------------------------------------
(* What a step of the loop may do. *)

\* The loop grows the map by whole pages, whatever the settings.
THEOREM LoopGrows == Spec => ResizeGrows
<1> DEFINE Step == (pc = "resize" /\ map_size' # map_size)
                       => (map_size' > map_size /\ map_size' % PageSize = 0)
<1>1. IInv /\ [Next]_vars => [Step]_vars
  <2> SUFFICES ASSUME IInv, Next, pc = "resize", map_size' # map_size
               PROVE  map_size' > map_size /\ map_size' % PageSize = 0
    OBVIOUS
  <2>1. ResizeForTxn
    BY DEF Next, BeginRw, DoResize, SetMapSize, AllocNewPages, CheckSize, RwBegin, Commit, Abort
  <2>2. required_space \in Nat
    BY DEF IInv, TypeInv
  <2>3. /\ ~ResizePanics(required_space)
        /\ map_size' = NewMapSize(required_space) /\ map_size' > map_size
    BY <2>1, <2>2, ResizeEffect DEF ResizeForTxn
  <2> QED BY <2>3 DEF ResizePanics
<1> QED BY <1>1, Invariance, PTL DEF Spec, ResizeGrows

\* When the loop ends the caller's headroom is free beside the committed pages:
\* after its condition by definition, after its early exit because the map has
\* grown by the headroom from a size that held every committed page.
THEOREM LoopGrantsHeadroom == Spec => HeadroomChecked
<1> DEFINE Step == (pc # "begin" /\ pc' = "begin") => HeadroomFree'
<1>1. IInv /\ [Next]_vars => [Step]_vars
  <2> SUFFICES ASSUME IInv, Next, pc # "begin", pc' = "begin" PROVE HeadroomFree'
    OBVIOUS
  <2> USE SettingsAssumption DEF IInv, TypeInv
  <2>1. CASE CheckSize
    BY <2>1 DEF CheckSize, NeedsResize, HeadroomFree, SizeUsed, args
  <2>2. CASE ResizeForTxn
    <3> DEFINE next == IF NewMapSize(required_space) >= (required_space + initial_map_size) % Word
                       THEN "begin" ELSE "check"
    <3>1. DoResizeLocked(required_space, next)
      BY <2>2 DEF ResizeForTxn
    <3>2. map_size' = NewMapSize(required_space) /\ map_size' \in Nat /\ next = "begin"
      BY <3>1, ResizeEffect
    <3>3. map_size' >= (required_space + initial_map_size) % Word
      BY <3>2
    <3>4. SUFFICES ASSUME headroom # None, required_space + initial_map_size < Word
                   PROVE  map_size' >= headroom + PageSize * last_pgno
      BY <2>2 DEF HeadroomFree, SizeUsed, ResizeForTxn, args
    <3>5. (required_space + initial_map_size) % Word = required_space + initial_map_size
      BY <3>4, SmallStays
    <3>6. required_space = headroom /\ (last_pgno + 1) * PageSize <= initial_map_size
      BY <2>2, <3>4 DEF LoopInv, ResizeForTxn
    <3>7. PageSize * last_pgno <= (last_pgno + 1) * PageSize
      OBVIOUS
    <3> QED BY <3>2, <3>3, <3>5, <3>6, <3>7
  <2>3. ASSUME NEW h \in Headrooms \cup {None}, DoResize(h) PROVE FALSE
    <3> DEFINE i == IF h = None THEN HeadroomFromRatio(map_size) ELSE h
    <3>1. i \in Nat
      BY RatioType
    <3>2. i < Word => pc' \in {"idle", "panic"}
      BY <2>3, <3>1, ResizeEffect DEF DoResize
    <3> QED BY <2>3, <3>2 DEF DoResize
  <2> QED BY <2>1, <2>2, <2>3
          DEF Next, BeginRw, SetMapSize, AllocNewPages, RwBegin, Commit, Abort
<1> QED BY <1>1, Invariance, PTL DEF Spec, HeadroomChecked

\* do_resize_locked can panic only where the sizes leave usize.
LEMMA ResizePanicsOnOverflow ==
    ASSUME IInv, NEW inc \in Nat, map_size + MaxStep + PageSize < Word
    PROVE  ~ResizePanics(inc)
<1> USE SettingsAssumption DEF IInv, TypeInv
<1> DEFINE x == map_size + Clamp(inc, MinStep, MaxStep)
<1>1. x \in Nat /\ x > map_size /\ x + PageSize < Word
  BY DEF Clamp
<1>2. RoundToPage(x) \in Nat /\ RoundToPage(x) >= x /\ RoundToPage(x) % PageSize = 0
  <2>1. CASE x % PageSize = 0
    BY <1>1, <2>1 DEF RoundToPage
  <2>2. CASE x % PageSize # 0
    <3> DEFINE y == x + (PageSize - (x % PageSize))
    <3>1. y \in Nat /\ y > x /\ y < x + PageSize /\ y % PageSize = 0
      BY <1>1, <2>2, RoundedUp
    <3>2. Word \in Nat \ {0} /\ y < Word
      BY <1>1, <3>1
    <3> HIDE DEF y
    <3>3. y % Word = y
      BY <3>1, <3>2, SmallStays
    <3> QED BY <2>2, <3>1, <3>3, <1>1 DEF RoundToPage, y
  <2> QED BY <2>1, <2>2
<1>3. NewMapSize(inc) = RoundToPage(x)
  BY <1>1, <1>2 DEF NewMapSize
<1> QED BY <1>1, <1>2, <1>3 DEF ResizePanics

\* A resize panics only when a size does not fit in usize: in particular the two
\* assertions of do_resize_locked never fail.
THEOREM PanicsOnlyOnOverflow == Spec => PanicOnlyOnOverflow
<1> DEFINE Step == (pc # "panic" /\ pc' = "panic")
                       => \/ map_size + MaxStep + PageSize >= Word
                          \/ HeadroomFromRatio(map_size) >= Word
                          \/ headroom # None /\ headroom + SizeUsed >= Word
<1>1. IInv /\ [Next]_vars => [Step]_vars
  <2> SUFFICES ASSUME IInv, Next, pc # "panic", pc' = "panic",
                      map_size + MaxStep + PageSize < Word,
                      HeadroomFromRatio(map_size) < Word
               PROVE  headroom # None /\ headroom + SizeUsed >= Word
    BY SettingsAssumption, RatioType DEF IInv, TypeInv
  <2> USE SettingsAssumption DEF IInv, TypeInv
  <2>1. ASSUME NEW h \in Headrooms \cup {None}, BeginRw(h) PROVE FALSE
    BY <2>1 DEF BeginRw
  <2>2. ASSUME NEW h \in Headrooms \cup {None}, DoResize(h) PROVE FALSE
    <3> DEFINE i == IF h = None THEN HeadroomFromRatio(map_size) ELSE h
    <3>1. i \in Nat /\ i < Word
      BY RatioType
    <3>2. DoResizeLocked(i, "idle")
      BY <2>2, <3>1 DEF DoResize
    <3>3. ~ResizePanics(i)
      BY <3>1, ResizePanicsOnOverflow
    <3> QED BY <3>2, <3>3 DEF DoResizeLocked
  <2>3. CASE CheckSize
    BY <2>3 DEF CheckSize, SizeUsed
  <2>4. CASE ResizeForTxn
    <3>1. ~ResizePanics(required_space)
      BY ResizePanicsOnOverflow
    <3> QED BY <2>4, <3>1 DEF ResizeForTxn, DoResizeLocked
  <2> QED BY <2>1, <2>2, <2>3, <2>4
          DEF Next, SetMapSize, AllocNewPages, RwBegin, Commit, Abort
<1> QED BY <1>1, Invariance, PTL DEF Spec, PanicOnlyOnOverflow
=============================================================================
