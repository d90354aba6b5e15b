-------------------------------- MODULE Heap --------------------------------
(***************************************************************************)
(* lwIP's own heap (src/core/mem.c) and memory pools (src/core/memp.c).    *)
(* Addresses count aligned units; a block is the header at its address and *)
(* the units up to the next header.  mem maps the address of every header  *)
(* to [next, prev, used]; ram_end, at MEM_SIZE, is not in it.  Blocks may  *)
(* be freed from another context while mem_malloc searches                 *)
(* (LWIP_ALLOW_MEM_FREE_FROM_OTHER_CONTEXT), so the search is several      *)
(* steps.  owned is what the application holds: the size it asked for.     *)
(***************************************************************************)
EXTENDS Integers, FiniteSets, Sequences

CONSTANTS
  MEM_SIZE,
  SIZEOF_STRUCT_MEM,
  MIN_SIZE,
  MallocSizes,
  POOLS             \* pool name -> [size, num], by increasing size

VARIABLES mem, lfree, mem_free_count, search, owned, pool, taken

heapVars == <<mem, lfree, mem_free_count, search, owned, pool, taken>>

Idle == [pc |-> "idle", ptr |-> 0, cur |-> 0, size |-> 0, want |-> 0, got |-> "none"]

memp_init == [k \in 1 .. Len(POOLS) |-> [i \in 1 .. POOLS[k].num |-> i]]

HeapInit ==
  /\ mem = [p \in {0} |-> [next |-> MEM_SIZE, prev |-> 0, used |-> FALSE]]
  /\ lfree = 0
  /\ mem_free_count = 0
  /\ search = Idle
  /\ owned = << >>
  /\ pool = memp_init
  /\ taken = {}

Room(h, p) == h[p].next - p - SIZEOF_STRUCT_MEM

\* Gives the block at p the successor n; n's back link follows.
Link(h, p, n) ==
  [q \in DOMAIN h |-> IF q = p THEN [h[p] EXCEPT !.next = n]
                      ELSE IF q = n THEN [h[n] EXCEPT !.prev = p] ELSE h[q]]

Without(h, p) == [q \in DOMAIN h \ {p} |-> h[q]]
\* Faulty variant: the freed block is joined with the block behind it only.
PlugForward(h, lf, p) ==
  LET n == h[p].next
      fwd == n # MEM_SIZE /\ ~h[n].used
  IN  [mem |-> IF fwd THEN Without(Link(h, p, h[n].next), n) ELSE h,
       lfree |-> IF fwd /\ lf = n THEN p ELSE lf]

\* A free block swallows a free successor, and is swallowed by a free predecessor.
plug_holes(h, lf, p) ==
  LET n == h[p].next
      fwd == n # MEM_SIZE /\ ~h[n].used
      h1 == IF fwd THEN Without(Link(h, p, h[n].next), n) ELSE h
      lf1 == IF fwd /\ lf = n THEN p ELSE lf
      q == h1[p].prev
      back == q # p /\ ~h1[q].used
      h2 == IF back THEN Without(Link(h1, q, h1[p].next), p) ELSE h1
  IN  [mem |-> h2, lfree |-> IF back /\ lf1 = p THEN q ELSE lf1]

\* Cuts the used block at p after size units; the rest becomes a free block.
Cut(h, p, size) ==
  LET c == p + SIZEOF_STRUCT_MEM + size
      n == h[p].next
      h1 == [q \in DOMAIN h \cup {c} |->
               IF q = c THEN [next |-> n, prev |-> p, used |-> FALSE] ELSE h[q]]
  IN  [q \in DOMAIN h1 |-> IF q = p THEN [h1[p] EXCEPT !.next = c]
                           ELSE IF q = n THEN [h1[n] EXCEPT !.prev = c] ELSE h1[q]]

mem_free ==
  \E p \in DOMAIN owned :
    LET h == [mem EXCEPT ![p].used = FALSE]
        r == plug_holes(h, IF p < lfree THEN p ELSE lfree, p)
    IN  /\ mem' = r.mem /\ lfree' = r.lfree
        /\ mem_free_count' = 1
        /\ owned' = Without(owned, p)
        /\ UNCHANGED <<search, pool, taken>>

Aligned(size) == IF size < MIN_SIZE THEN MIN_SIZE ELSE size

\* A free successor grows downwards over what is given back; before a used one a
\* new free block is made when the rest can hold a header and the smallest size.
mem_trim ==
  \E p \in DOMAIN owned, want \in MallocSizes :
    LET new == Aligned(want)
        size == Room(mem, p)
        n == mem[p].next
        joins == n # MEM_SIZE /\ ~mem[n].used
        c == p + SIZEOF_STRUCT_MEM + new
        fits == new + SIZEOF_STRUCT_MEM + MIN_SIZE <= size
    IN  /\ want < owned[p] /\ new < size
        /\ owned' = [owned EXCEPT ![p] = want]
        /\ IF joins
           THEN mem' = Cut(Without(Link(mem, p, mem[n].next), n), p, new)
                /\ lfree' = IF lfree = n THEN c ELSE lfree
           ELSE IF fits
           THEN mem' = Cut(mem, p, new) /\ lfree' = IF c < lfree THEN c ELSE lfree
           ELSE UNCHANGED <<mem, lfree>>
        /\ mem_free_count' = 1
        /\ UNCHANGED <<search, pool, taken>>

\* The head of the loop: past the last place where the block could start there is
\* no memory, else the protection goes off for a moment.
LookAt(ptr, s) ==
  IF ptr < MEM_SIZE - s.size THEN [s EXCEPT !.pc = "scan", !.ptr = ptr]
  ELSE [Idle EXCEPT !.got = "null", !.want = s.want]

\* The mutex: one search at a time.
mem_malloc ==
  /\ search.pc = "idle"
  /\ \E want \in MallocSizes :
       search' = IF want = 0 \/ Aligned(want) > MEM_SIZE
                 THEN [Idle EXCEPT !.got = "null", !.want = want]
                 ELSE LookAt(lfree, [Idle EXCEPT !.size = Aligned(want), !.want = want])
  /\ mem_free_count' = 0
  /\ UNCHANGED <<mem, lfree, owned, pool, taken>>

Finish(lf) ==
  /\ lfree' = lf
  /\ owned' = [q \in DOMAIN owned \cup {search.ptr} |->
                 IF q = search.ptr THEN search.want ELSE owned[q]]
  /\ search' = [Idle EXCEPT !.got = "ok", !.want = search.want]

\* The protection is on again: the search starts over from lfree when something was
\* freed meanwhile, takes the block when it fits, or looks at the next.
ScanHeap ==
  /\ search.pc = "scan"
  /\ mem_free_count' = 0
  /\ UNCHANGED <<pool, taken>>
  /\ LET p == search.ptr
         size == search.size
         fits == ~mem[p].used /\ Room(mem, p) >= size
         h == [mem EXCEPT ![p].used = TRUE]
     IN  IF mem_free_count = 0 /\ fits
         THEN /\ mem' = IF Room(mem, p) >= size + SIZEOF_STRUCT_MEM + MIN_SIZE
                        THEN Cut(h, p, size) ELSE h
              /\ IF p = lfree THEN search' = [search EXCEPT !.pc = "adjust", !.cur = p]
                                   /\ UNCHANGED <<lfree, owned>>
                 ELSE Finish(lfree)
         ELSE /\ search' = LookAt(IF mem_free_count # 0 THEN lfree ELSE mem[p].next, search)
              /\ UNCHANGED <<mem, lfree, owned>>

\* lfree moves to the next free block when its own was taken; the walk starts over
\* when something was freed meanwhile.
AdjustLfree ==
  /\ search.pc = "adjust"
  /\ mem_free_count' = 0
  /\ UNCHANGED <<mem, pool, taken>>
  /\ LET next == mem[search.cur].next
     IN  IF mem_free_count # 0
         THEN IF search.ptr = lfree
              THEN search' = [search EXCEPT !.cur = lfree] /\ UNCHANGED <<lfree, owned>>
              ELSE Finish(lfree)
         ELSE IF next # MEM_SIZE /\ mem[next].used
         THEN search' = [search EXCEPT !.cur = next] /\ UNCHANGED <<lfree, owned>>
         ELSE Finish(next)

\* MEM_USE_POOLS: mem_malloc takes an element of the first pool that is big enough,
\* or of a bigger one when that is empty (MEM_USE_POOLS_TRY_BIGGER_POOL).
memp_malloc(k) == [el |-> <<k, Head(pool[k])>>, pool |-> [pool EXCEPT ![k] = Tail(@)]]

PoolMalloc ==
  \E want \in MallocSizes \ {0} :
    LET fits == {k \in 1 .. Len(POOLS) : want <= POOLS[k].size /\ pool[k] # << >>}
        k == CHOOSE k \in fits : \A j \in fits : k <= j
        r == memp_malloc(k)
    IN  /\ fits # {}
        /\ taken' = taken \cup {<<r.el, want>>}
        /\ pool' = r.pool
        /\ UNCHANGED <<mem, lfree, mem_free_count, search, owned>>

memp_free ==
  \E t \in taken :
    /\ pool' = [pool EXCEPT ![t[1][1]] = <<t[1][2]>> \o @]
    /\ taken' = taken \ {t}
    /\ UNCHANGED <<mem, lfree, mem_free_count, search, owned>>

HeapNext == mem_free \/ mem_trim \/ mem_malloc \/ ScanHeap \/ AdjustLfree
            \/ (DOMAIN owned = {} /\ search.pc = "idle" /\ (PoolMalloc \/ memp_free))

HeapSpec == HeapInit /\ [][HeapNext]_heapVars
-----------------------------------------------------------------------------
mem_link_valid(p) ==
  /\ mem[p].next \in DOMAIN mem \cup {MEM_SIZE} /\ mem[p].prev \in DOMAIN mem
  /\ mem[p].prev = p \/ mem[mem[p].prev].next = p
  /\ mem[p].next = MEM_SIZE \/ mem[mem[p].next].prev = p

\* mem.c (mem_sanity, MEM_SANITY_CHECK): the headers form one doubly linked list
\* over the whole heap without two free neighbours; and what the application holds
\* is a used block at least as big as it asked for, also while a search, a free of
\* another thread and a trim interleave.
mem_sanity ==
  /\ \A p \in DOMAIN mem :
       /\ mem_link_valid(p)
       /\ mem[p].next > p
       /\ mem[p].prev = p <=> p = 0
       /\ ~mem[p].used /\ mem[p].next # MEM_SIZE => mem[mem[p].next].used
  /\ \A p \in DOMAIN owned : p \in DOMAIN mem /\ mem[p].used /\ Room(mem, p) >= owned[p]
  /\ \A p \in DOMAIN mem : mem[p].used => p \in DOMAIN owned \cup {search.ptr}

\* mem.c:409 "pointer to the lowest free block, this is used for faster search": no
\* block below lfree is free, so that a search from there misses nothing.
LfreeIsLowest == \A p \in DOMAIN mem : p < lfree => mem[p].used

\* mem_malloc: NULL means that no free block is big enough at that moment, although
\* blocks were freed and joined during the search.
NullOnlyWhenFull ==
  search' # search /\ search'.got = "null" /\ search'.want # 0
  => \A p \in DOMAIN mem : mem[p].used \/ Room(mem, p) < search'.want

\* memp.c: an element is free or handed out, never both and never twice, and at
\* least as big as what it was taken for.
PoolsPartition ==
  \A k \in 1 .. Len(POOLS) :
    /\ \A i, j \in 1 .. Len(pool[k]) : i # j => pool[k][i] # pool[k][j]
    /\ \A t, u \in taken : t[1] = u[1] => t = u
    /\ {pool[k][i] : i \in 1 .. Len(pool[k])} \cap {t[1][2] : t \in {t \in taken : t[1][1] = k}} = {}
    /\ \A t \in taken : t[2] <= POOLS[t[1][1]].size
=============================================================================
