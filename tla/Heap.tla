-------------------------------- MODULE Heap --------------------------------
(***************************************************************************)
(* alloc() and free() of mm.c: which requests are served from the chunk    *)
(* pools and which by whole pages, how a pool is refilled, and how free()  *)
(* finds out what a pointer is.  Pages come from the frame allocator,      *)
(* which Buddy models: here any suitable free block may be granted.        *)
(* Addresses are bytes of the managed region.                              *)
(***************************************************************************)
EXTENDS Integers, FiniteSets, Sequences, FiniteSetsExt, SequencesExt

CONSTANTS
  PageSize,   \* PAGE_SIZE
  HeapPages,  \* g_num_pages
  HeapOrder,  \* MAX_ORDER
  Span,       \* the pages of a block of each order: 1 << order
  PoolSizes,  \* g_pool_sizes: increasing divisors of PageSize
  Word,       \* how many values an unsigned long has
  Sizes,      \* the sizes callers ask for
  Handles     \* tell grants of one pointer and size apart

HeapFrames == 0 .. HeapPages - 1
HeapOrders == 0 .. HeapOrder
Pools == DOMAIN PoolSizes

ASSUME HeapAssumption ==
  /\ PageSize \in Nat \ {0} /\ HeapPages \in Nat /\ HeapOrder \in Nat /\ Word \in Nat
  /\ Span \in [HeapOrders -> Nat \ {0}] /\ Span[0] = 1
  /\ \A k \in HeapOrders : k < HeapOrder => Span[k + 1] = 2 * Span[k]
  /\ PoolSizes \in Seq(Nat \ {0})
  /\ \A i \in Pools : PageSize % PoolSizes[i] = 0
  /\ \A i, j \in Pools : i < j => PoolSizes[i] < PoolSizes[j]
  /\ Sizes \subseteq 0 .. Word - 1 /\ Handles # {}

VARIABLES
  list,   \* g_pools[i].free_list
  kind,   \* g_frames[p].state: FREE, CHUNK_PAGE, ALLOC_HEAD or ALLOC_TAIL
  pool,   \* g_frames[p].pool_id
  frameOrder, \* g_frames[p].order
  live    \* the grants callers hold: a pointer, the size asked for, and which
          \* one of those that have both in common

heapVars == <<list, kind, pool, frameOrder, live>>

HeapInit ==
  /\ list = [i \in Pools |-> <<>>]
  /\ kind = [p \in HeapFrames |-> "FREE"]
  /\ pool = [p \in HeapFrames |-> 0]
  /\ frameOrder = [p \in HeapFrames |-> -1]
  /\ live = {}

-----------------------------------------------------------------------------
(* pick_pool_id and ceil_order_pages                                         *)
(* Faulty variant: a size one above a chunk size is let into its pool.       *)
PickPoolBelow(size) ==
  IF \E i \in Pools : size <= PoolSizes[i] + 1
  THEN Min({i \in Pools : size <= PoolSizes[i] + 1}) ELSE 0
PickPool(size) ==
  IF \E i \in Pools : size <= PoolSizes[i]
  THEN Min({i \in Pools : size <= PoolSizes[i]}) ELSE 0

Small(size) == size < PageSize /\ PickPool(size) # 0

(* The addition wraps; no caller asks for so much that it does (NoWrap).     *)
PagesFor(size) == ((size + PageSize - 1) % Word) \div PageSize
OrdersFor(size) == {k \in HeapOrders : PagesFor(size) <= Span[k]}
OrderFor(size) == Min(OrdersFor(size))

NoWrap == \A size \in Sizes : size + PageSize <= Word

Run(p, k) == p .. p + Span[k] - 1
Grantable(p, k) ==
  /\ p % Span[k] = 0 /\ Run(p, k) \subseteq HeapFrames
  /\ \A q \in Run(p, k) : kind[q] = "FREE"

-----------------------------------------------------------------------------
(* pool_refill pushes the chunks of a page from its start to its end, so the *)
(* list begins with the last.                                                *)
Chunks(p, i) ==
  [n \in 1 .. PageSize \div PoolSizes[i] |->
     (p + 1) * PageSize - n * PoolSizes[i]]

Grant(ptr, size) ==
  [ptr |-> ptr, size |-> size,
   nth |-> CHOOSE n \in Handles :
             \A a \in live : ~(a.ptr = ptr /\ a.size = size /\ a.nth = n)]

AllocChunk(size) ==
  LET i == PickPool(size)
  IN  /\ size > 0 /\ Small(size) /\ list[i] # <<>>
      /\ live' = live \cup {Grant(Head(list[i]), size)}
      /\ list' = [list EXCEPT ![i] = Tail(@)]
      /\ UNCHANGED <<kind, pool, frameOrder>>

AllocRefill(size, p) ==
  LET i == PickPool(size)
  IN  /\ size > 0 /\ Small(size) /\ list[i] = <<>> /\ Grantable(p, 0)
      /\ kind' = [kind EXCEPT ![p] = "CHUNK_PAGE"]
      /\ pool' = [pool EXCEPT ![p] = i]
      /\ frameOrder' = [frameOrder EXCEPT ![p] = 0]
      /\ live' = live \cup {Grant(Chunks(p, i)[1], size)}
      /\ list' = [list EXCEPT ![i] = Tail(Chunks(p, i))]

AllocPages(size, p) ==
  LET k == OrderFor(size)
  IN  /\ size > 0 /\ ~Small(size) /\ OrdersFor(size) # {} /\ Grantable(p, k)
      /\ kind' = [q \in HeapFrames |-> IF q = p THEN "ALLOC_HEAD"
                                   ELSE IF q \in Run(p, k) THEN "ALLOC_TAIL"
                                   ELSE kind[q]]
      /\ frameOrder' = [frameOrder EXCEPT ![p] = k]
      /\ live' = live \cup {Grant(p * PageSize, size)}
      /\ UNCHANGED <<list, pool>>

-----------------------------------------------------------------------------
PageOf(ptr) == ptr \div PageSize

(* chunk_free_ptr: a multiple of the chunk size inside a page of chunks.   *)
IsChunk(ptr) ==
  /\ kind[PageOf(ptr)] = "CHUNK_PAGE"
  /\ (ptr % PageSize) % PoolSizes[pool[PageOf(ptr)]] = 0

FreeChunk(a) ==
  LET i == pool[PageOf(a.ptr)]
  IN  /\ a \in live /\ IsChunk(a.ptr)
      /\ list' = [list EXCEPT ![i] = <<a.ptr>> \o @]
      /\ live' = live \ {a}
      /\ UNCHANGED <<kind, pool, frameOrder>>

(* Faulty variant: the head alone is given back.                             *)
FreeHead(a) ==
  LET p == PageOf(a.ptr)
  IN  /\ a \in live /\ a.ptr % PageSize = 0 /\ kind[p] = "ALLOC_HEAD"
      /\ kind' = [kind EXCEPT ![p] = "FREE"]
      /\ frameOrder' = [frameOrder EXCEPT ![p] = -1]
      /\ live' = live \ {a}
      /\ UNCHANGED <<list, pool>>

(* Any other pointer is ignored; callers have no such pointers.              *)
FreePages(a) ==
  LET p == PageOf(a.ptr)
  IN  /\ a \in live /\ ~IsChunk(a.ptr)
      /\ a.ptr % PageSize = 0 /\ kind[p] = "ALLOC_HEAD"
      /\ kind' = [q \in HeapFrames |-> IF q \in Run(p, frameOrder[p]) THEN "FREE"
                                   ELSE kind[q]]
      /\ frameOrder' = [frameOrder EXCEPT ![p] = -1]
      /\ live' = live \ {a}
      /\ UNCHANGED <<list, pool>>

HeapNext ==
  \/ \E size \in Sizes : \/ AllocChunk(size)
                         \/ \E p \in HeapFrames : AllocRefill(size, p) \/ AllocPages(size, p)
  \/ \E a \in live : FreeChunk(a) \/ FreePages(a)

HeapSpec == HeapInit /\ [][HeapNext]_heapVars
-----------------------------------------------------------------------------
Used(a) == a.ptr .. a.ptr + a.size - 1

(* The type invariant.                                                       *)
HeapTypeOK ==
  /\ list \in [Pools -> Seq(0 .. HeapPages * PageSize - 1)]
  /\ kind \in [HeapFrames -> {"FREE", "ALLOC_HEAD", "ALLOC_TAIL", "CHUNK_PAGE"}]
  /\ pool \in [HeapFrames -> Pools \cup {0}]
  /\ frameOrder \in [HeapFrames -> HeapOrders \cup {-1}]
  /\ live \subseteq [ptr : 0 .. HeapPages * PageSize - 1, size : Sizes, nth : Handles]

(* What was granted twice, to whomever, never overlaps, lies inside the      *)
(* region, and inside pages of the right kind.                               *)
GrantsApart ==
  \A a \in live :
    /\ \A x \in Used(a) : PageOf(x) \in HeapFrames /\ kind[PageOf(x)] # "FREE"
    /\ \A b \in live : a # b => Used(a) \cap Used(b) = {}

(* free() gives back what alloc() gave: a page is in use only while a caller *)
(* holds something in it or it is a page of chunks, nothing on a list lies   *)
(* outside the pages of its pool, and every chunk of a page is held or on    *)
(* the list of its pool.                                                     *)
InList(x, i) == \E n \in DOMAIN list[i] : list[i][n] = x
HeldAt(x) == \E a \in live : a.ptr = x
NothingLeaks ==
  /\ \A p \in HeapFrames : kind[p] \in {"ALLOC_HEAD", "ALLOC_TAIL"} =>
       \E a \in live : LET q == PageOf(a.ptr)
                       IN  kind[q] = "ALLOC_HEAD" /\ p \in Run(q, frameOrder[q])
  /\ \A i \in Pools : \A n \in DOMAIN list[i] :
       LET p == PageOf(list[i][n])
       IN  p \in HeapFrames /\ kind[p] = "CHUNK_PAGE" /\ pool[p] = i
  /\ \A p \in HeapFrames : kind[p] = "CHUNK_PAGE" =>
       \A n \in DOMAIN Chunks(p, pool[p]) :
         LET x == Chunks(p, pool[p])[n] IN InList(x, pool[p]) # HeldAt(x)
(* The dynamic allocator hands out each byte once and loses none, through    *)
(* any mix of alloc and free of chunks and pages.                          *)
HeapExact == GrantsApart /\ NothingLeaks
=============================================================================
