----------------------------- MODULE ArenaProofs ------------------------------
(***************************************************************************)
(* The arena hands out blocks that never meet and frees every page, for    *)
(* any sizes, alignments and addresses.                                    *)
(*                                                                         *)
(* The list of pages is followed by no recursion: the pages are numbered   *)
(* in the order of the list, so that it is the interval from the page the  *)
(* list begins with to the last one, each page pointing to the next number *)
(* (Chain).  arena_destroy shortens the interval from below.               *)
(***************************************************************************)
EXTENDS Arena, TLAPS

-----------------------------------------------------------------------------
(* The inductive invariant *)

Chain ==
  /\ PageIds = (IF Head = NULL THEN {} ELSE Head .. page_count - 1)
  /\ Head # NULL => Head \in 0 .. page_count - 1
  /\ \A p \in PageIds : pages[p].next = (IF p + 1 < page_count THEN p + 1 ELSE NULL)
  /\ first = (IF page_count = 0 THEN NULL ELSE 0)
  /\ current = (IF page_count = 0 THEN NULL ELSE page_count - 1)

PagesApart ==
  /\ \A p \in PageIds : pages[p].used <= page_size
  /\ \A p, q \in PageIds :
       p # q => \/ pages[p].base + page_size <= pages[q].base
                \/ pages[q].base + page_size <= pages[p].base

(* What a call in progress may rely on.                                      *)
Progress ==
  /\ page_size = 0 => page_count = 0
  /\ Placing => op \in AllocOp /\ page_size # 0 /\ op.size <= page_size
  /\ op.pc = "retry" => current \in PageIds /\ pages[current].used = 0
  /\ op.pc = "destroy" => op \in DestroyOp /\ blocks = {}
  /\ op.pc \notin {"place", "retry", "destroy"} => op = Idle

IInv == TypeOK /\ Chain /\ PagesApart /\ Progress /\ BlocksApart

-----------------------------------------------------------------------------
(* Arithmetic *)

(* What % and \div are.                                                      *)
LEMMA Division ==
  ASSUME NEW a \in Int, NEW m \in Nat \ {0}
  PROVE  /\ a % m \in 0 .. m - 1
         /\ a \div m \in Int
         /\ a = m * (a \div m) + (a % m)
OBVIOUS

(* A multiple of m leaves no remainder.                                      *)
LEMMA Multiple ==
  ASSUME NEW q \in Int, NEW m \in Nat \ {0}
  PROVE  (m * q) % m = 0
OBVIOUS

(* What leaves no remainder is a multiple.                                   *)
LEMMA Factor ==
  ASSUME NEW a \in Int, NEW m \in Nat \ {0}, a % m = 0
  PROVE  \E q \in Int : a = m * q
<1>1. a \div m \in Int /\ a = m * (a \div m)
  BY Division
<1> WITNESS a \div m \in Int
<1> QED
  BY <1>1

(* A multiple of a multiple.                                                 *)
LEMMA Transitive ==
  ASSUME NEW a \in Int, NEW m \in Nat \ {0}, NEW k \in Nat \ {0}, a % m = 0, m % k = 0
  PROVE  a % k = 0
<1>1. PICK q \in Int : a = m * q
  BY Factor
<1>2. PICK r \in Int : m = k * r
  BY Factor
<1>3. a = k * (r * q) /\ r * q \in Int
  BY <1>1, <1>2
<1> QED
  BY <1>3, Multiple

(* No multiple is between two neighbours.                                    *)
LEMMA Between ==
  ASSUME NEW m \in Nat \ {0}, NEW q \in Int, NEW r \in Int, NEW d \in 0 .. m - 1,
         m * q + d = m * r + (m - 1)
  PROVE  d = m - 1
<1>1. m * (q - r) = m * q - m * r
  OBVIOUS
<1>2. m * (q - r) \in 0 .. m - 1
  BY <1>1
<1>3. q - r \in Int /\ (q - r >= 1 => m * (q - r) >= m) /\ (q - r <= -1 => m * (q - r) <= -m)
  OBVIOUS
<1>4. q = r
  BY <1>2, <1>3
<1> QED
  BY <1>4

(* arena_align_forward goes to the next multiple, which is where it is when  *)
(* the address is one.                                                       *)
LEMMA Alignment ==
  ASSUME NEW address \in Nat, NEW alignment \in Nat \ {0}
  PROVE  /\ AlignForward(address, alignment) \in Nat
         /\ AlignForward(address, alignment) >= address
         /\ AlignForward(address, alignment) % alignment = 0
         /\ address % alignment = 0 => AlignForward(address, alignment) = address
<1>1. PICK x \in Nat : x = address + alignment - 1
  OBVIOUS
<1> DEFINE q == x \div alignment
           d == x % alignment
<1>2. q \in Int /\ d \in 0 .. alignment - 1 /\ x = alignment * q + d
  BY Division
<1>3. AlignForward(address, alignment) = x - d
  BY <1>1 DEF AlignForward
<1> HIDE DEF q, d
<1>4. ASSUME address % alignment = 0 PROVE d = alignment - 1
  <2>1. PICK r \in Int : address = alignment * r
    BY <1>4, Factor
  <2>2. alignment * q + d = alignment * r + (alignment - 1)
    BY <1>1, <1>2, <2>1
  <2> QED
    BY <1>2, <2>2, Between
<1>5. x - d \in Nat /\ x - d >= address
  BY <1>1, <1>2
<1>6. (x - d) % alignment = 0
  <2>1. x - d = alignment * q
    BY <1>2
  <2> QED
    BY <1>2, <2>1, Multiple
<1>7. address % alignment = 0 => x - d = address
  BY <1>1, <1>4
<1> QED
  BY <1>3, <1>5, <1>6, <1>7
-----------------------------------------------------------------------------
(* The steps *)

(* The list of pages, outside arena_destroy.                                 *)
LEMMA WholeList ==
  ASSUME IInv, op.pc # "destroy"
  PROVE  /\ PageIds = 0 .. page_count - 1
         /\ page_count \in Nat
         /\ current = NULL <=> page_count = 0
         /\ current # NULL => current \in PageIds /\ current = page_count - 1
BY DEF IInv, Chain, TypeOK, Head, NULL

(* A page is what a page holds.                                              *)
LEMMA PageTyped ==
  ASSUME IInv, NEW p \in PageIds
  PROVE  /\ pages[p] \in ArenaPage
         /\ pages[p].base \in Nat /\ pages[p].base \in Bases
         /\ pages[p].used \in Nat
         /\ p \in Nat
BY BaseAssumption DEF IInv, TypeOK, ArenaPage

(* What one more page does to the others: they stay where they are, and the  *)
(* one that was the last points to it.                                       *)
LEMMA PageAdded ==
  ASSUME IInv, AddFirstPage \/ AddPage
  PROVE  /\ op \in AllocOp /\ op.pc # "destroy" /\ page_size # 0
         /\ PageIds = 0 .. page_count - 1 /\ page_count \in Nat
         /\ page_count' = page_count + 1
         /\ PageIds' = 0 .. page_count /\ pages' \in [PageIds' -> ArenaPage]
         /\ current' = page_count /\ first' = 0
         /\ UNCHANGED <<page_size, answer, blocks>>
         /\ op' \in AllocOp /\ op'.size = op.size
         /\ pages'[page_count].used = 0 /\ pages'[page_count].next = NULL
         /\ \A p \in PageIds :
              /\ pages'[p].base = pages[p].base
              /\ pages'[p].used = pages[p].used
              /\ pages'[p].next = p + 1
              /\ \/ pages'[page_count].base + page_size <= pages[p].base
                 \/ pages[p].base + page_size <= pages'[page_count].base
<1>1. /\ op \in AllocOp /\ op.pc \in {"place", "retry"} /\ page_size # 0
      /\ UNCHANGED <<page_size, answer, blocks>>
      /\ pages \in [PageIds -> ArenaPage]
  BY DEF AddFirstPage, AddPage, Placing, IInv, Progress, TypeOK
<1>2. PageIds = 0 .. page_count - 1 /\ page_count \in Nat /\ page_count \notin PageIds
  BY <1>1, WholeList
<1>3. \A p \in PageIds : pages[p].next = (IF p + 1 < page_count THEN p + 1 ELSE NULL)
  BY DEF IInv, Chain
<1>4. PICK linked \in [PageIds -> ArenaPage] :
        /\ CreatePage(linked)
        /\ \A p \in PageIds :
             /\ linked[p].base = pages[p].base
             /\ linked[p].used = pages[p].used
             /\ linked[p].next = p + 1
  <2>1. CASE AddFirstPage
    <3>1. PageIds = {}
      BY <1>1, <1>2, <2>1, WholeList DEF AddFirstPage
    <3> QED
      BY <1>1, <2>1, <3>1 DEF AddFirstPage
  <2>2. CASE AddPage
    <3>1. current \in PageIds /\ current = page_count - 1
      BY <1>1, <2>2, WholeList DEF AddPage
    <3>2. pages[current] \in ArenaPage
      BY <1>1, <3>1
    <3> DEFINE linked == [pages EXCEPT ![current].next = page_count]
    <3>3. linked \in [PageIds -> ArenaPage]
      BY <1>1, <1>2, <3>1, <3>2 DEF ArenaPage
    <3>4. \A p \in PageIds :
             /\ linked[p].base = pages[p].base
             /\ linked[p].used = pages[p].used
             /\ linked[p].next = p + 1
      BY <1>1, <1>2, <1>3, <3>1, <3>2 DEF ArenaPage
    <3> HIDE DEF linked
    <3> QED
      BY <2>2, <3>3, <3>4 DEF AddPage, linked
  <2> QED
    BY <2>1, <2>2
<1>5. PICK base \in FreeBases :
        /\ pages' = [p \in PageIds \cup {page_count} |->
                      IF p = page_count THEN [base |-> base, used |-> 0, next |-> NULL]
                      ELSE linked[p]]
        /\ current' = page_count
        /\ page_count' = page_count + 1
  BY <1>4 DEF CreatePage
<1>6. base \in Bases /\ [base |-> base, used |-> 0, next |-> NULL] \in ArenaPage
  BY DEF FreeBases, ArenaPage
<1>7. PageIds' = 0 .. page_count /\ PageIds \cup {page_count} = 0 .. page_count
  BY <1>2, <1>5 DEF PageIds
<1>8. /\ pages' \in [PageIds' -> ArenaPage]
      /\ pages'[page_count] = [base |-> base, used |-> 0, next |-> NULL]
      /\ \A p \in PageIds : pages'[p] = linked[p]
  BY <1>2, <1>4, <1>5, <1>6, <1>7
<1>9. first' = 0
  <2>1. CASE AddFirstPage
    BY <1>1, <1>5, <2>1, WholeList DEF AddFirstPage
  <2>2. CASE AddPage
    BY <1>1, <2>2, WholeList DEF AddPage, IInv, Chain
  <2> QED
    BY <2>1, <2>2
<1>10. op' \in AllocOp /\ op'.size = op.size
  BY <1>1 DEF AddFirstPage, AddPage, AllocOp
<1> QED
  BY <1>1, <1>2, <1>4, <1>5, <1>7, <1>8, <1>9, <1>10 DEF FreeBases

(* A page is added at the end of the list, away from the others.             *)
LEMMA AddStep ==
  ASSUME IInv, AddFirstPage \/ AddPage
  PROVE  IInv'
<1>1. /\ op \in AllocOp /\ op.pc # "destroy" /\ page_size # 0
      /\ PageIds = 0 .. page_count - 1 /\ page_count \in Nat
      /\ page_count' = page_count + 1
      /\ PageIds' = 0 .. page_count /\ pages' \in [PageIds' -> ArenaPage]
      /\ current' = page_count /\ first' = 0
      /\ UNCHANGED <<page_size, answer, blocks>>
      /\ op' \in AllocOp /\ op'.size = op.size
  BY PageAdded
<1>2. /\ pages'[page_count].used = 0 /\ pages'[page_count].next = NULL
      /\ \A p \in PageIds :
           /\ pages'[p].base = pages[p].base
           /\ pages'[p].used = pages[p].used
           /\ pages'[p].next = p + 1
           /\ \/ pages'[page_count].base + page_size <= pages[p].base
              \/ pages[p].base + page_size <= pages'[page_count].base
  BY PageAdded
<1>3. op'.pc \in {"place", "retry"} /\ page_size \in Nat /\ op.size <= page_size
  BY <1>1 DEF AllocOp, IInv, TypeOK, Progress, Placing
<1>4. TypeOK'
  BY <1>1, <1>3 DEF IInv, TypeOK
<1>5. Chain'
  <2>1. Head' = 0
    BY <1>1, <1>3 DEF Head
  <2>2. \A p \in PageIds' :
          pages'[p].next = (IF p + 1 < page_count' THEN p + 1 ELSE NULL)
    BY <1>1, <1>2
  <2> QED
    BY <1>1, <2>1, <2>2 DEF Chain, NULL
<1>6. PagesApart'
  <2>1. \A p \in PageIds' : p = page_count \/ p \in PageIds
    BY <1>1
  <2>2. \A p \in PageIds' : pages'[p].used <= page_size
    BY <1>2, <1>3, <2>1 DEF IInv, PagesApart
  <2>3. \A p, q \in PageIds' :
          p # q => \/ pages'[p].base + page_size <= pages'[q].base
                   \/ pages'[q].base + page_size <= pages'[p].base
    BY <1>2, <2>1 DEF IInv, PagesApart
  <2> QED
    BY <1>1, <2>2, <2>3 DEF PagesApart
<1>7. Progress'
  BY <1>1, <1>2, <1>3 DEF Progress, Placing
<1>8. BlocksApart'
  <2>1. \A b \in blocks : b.page \in PageIds /\ b.page \in PageIds'
    BY <1>1 DEF IInv, BlocksApart
  <2> QED
    BY <1>1, <1>2, <2>1 DEF IInv, BlocksApart
<1> QED
  BY <1>4, <1>5, <1>6, <1>7, <1>8 DEF IInv

(* Where a block is cut: behind what is used of the page, within it.         *)
LEMMA BlockFits ==
  ASSUME IInv, TakeBlock
  PROVE  /\ op \in AllocOp /\ op.size \in Nat \ {0} /\ op.alignment \in Nat \ {0}
         /\ current \in PageIds /\ current \in Nat
         /\ Aligned \in Nat /\ Padding \in Nat
         /\ Aligned = pages[current].base + pages[current].used + Padding
         /\ Aligned % op.alignment = 0
         /\ pages[current].used + Padding + op.size <= page_size
<1>1. Placing /\ HasRoom /\ op \in AllocOp /\ op.pc # "destroy"
  BY DEF TakeBlock, Placing, IInv, Progress
<1>2. op.size \in Nat \ {0} /\ op.alignment \in Nat \ {0}
  BY <1>1, RequestAssumption DEF AllocOp
<1>3. current \in PageIds
  BY <1>1, WholeList DEF HasRoom
<1>4. current \in Nat /\ pages[current].base \in Nat /\ pages[current].used \in Nat
  BY <1>3, PageTyped
<1>5. /\ Aligned \in Nat
      /\ Aligned >= pages[current].base + pages[current].used
      /\ Aligned % op.alignment = 0
  <2>1. pages[current].base + pages[current].used \in Nat
    BY <1>4
  <2> QED
    BY <1>2, <2>1, Alignment DEF Aligned
<1>6. Padding \in Nat /\ Aligned = pages[current].base + pages[current].used + Padding
  BY <1>4, <1>5 DEF Padding
<1> QED
  BY <1>1, <1>2, <1>3, <1>4, <1>5, <1>6 DEF HasRoom

(* The block meets none of its page, which end where it begins, and none of  *)
(* another page, which is elsewhere.                                         *)
LEMMA TakeStep ==
  ASSUME IInv, TakeBlock
  PROVE  IInv'
<1> DEFINE block == [page |-> current, address |-> Aligned,
                     size |-> op.size, alignment |-> op.alignment]
           used == pages[current].used + Padding + op.size
<1>1. /\ op \in AllocOp /\ op.size \in Nat \ {0} /\ op.alignment \in Nat \ {0}
      /\ current \in PageIds /\ current \in Nat
      /\ Aligned \in Nat /\ Padding \in Nat
      /\ Aligned = pages[current].base + pages[current].used + Padding
      /\ Aligned % op.alignment = 0
      /\ used <= page_size
  BY BlockFits
<1>2. /\ pages' = [pages EXCEPT ![current].used = used]
      /\ blocks' = blocks \cup {block}
      /\ op' = Idle
      /\ UNCHANGED <<page_size, first, current, page_count>>
      /\ pages \in [PageIds -> ArenaPage] /\ pages[current] \in ArenaPage
  BY <1>1 DEF TakeBlock, IInv, TypeOK
<1>3. /\ pages[current].base \in Nat /\ pages[current].used \in Nat /\ used \in Nat
      /\ op.pc # "destroy" /\ page_size \in Nat
  BY <1>1, PageTyped DEF AllocOp, IInv, TypeOK
<1>4. block \in Block /\ block.page = current /\ block.address = Aligned
      /\ block.size = op.size /\ block.alignment = op.alignment
  BY <1>1 DEF Block
<1>5. /\ PageIds' = PageIds /\ pages' \in [PageIds -> ArenaPage]
      /\ pages'[current].used = used
      /\ \A p \in PageIds : /\ pages'[p].base = pages[p].base
                             /\ pages'[p].next = pages[p].next
                             /\ p # current => pages'[p].used = pages[p].used
  <2>1. [pages[current] EXCEPT !.used = used] \in ArenaPage
    BY <1>2, <1>3 DEF ArenaPage
  <2>2. pages' = [pages EXCEPT ![current] = [pages[current] EXCEPT !.used = used]]
    BY <1>2
  <2>3. PageIds' = PageIds
    BY <1>2 DEF PageIds
  <2> HIDE DEF used
  <2> QED
    BY <1>1, <1>2, <2>1, <2>2, <2>3 DEF ArenaPage
<1> HIDE DEF block, used
<1>6. TypeOK'
  BY <1>2, <1>4, <1>5 DEF IInv, TypeOK
<1>7. Chain'
  BY <1>2, <1>3, <1>5 DEF IInv, Chain, Head, Idle
<1>8. PagesApart'
  BY <1>1, <1>2, <1>5 DEF IInv, PagesApart
<1>9. Progress'
  BY <1>2 DEF IInv, Progress, Placing, Idle
<1>10. BlocksApart'
  <2>1. ASSUME NEW b \in blocks
        PROVE  /\ b \in Block
               /\ b.address % b.alignment = 0
               /\ b.page \in PageIds
               /\ pages[b.page].base <= b.address
               /\ b.address + b.size <= pages[b.page].base + pages[b.page].used
               /\ pages[b.page].used <= page_size
    BY DEF IInv, BlocksApart, TypeOK
  <2>2. used = pages[current].used + Padding + op.size
    BY DEF used
  <2>3. ASSUME NEW b \in blocks
        PROVE  /\ b.address % b.alignment = 0
               /\ b.page \in PageIds'
               /\ pages'[b.page].base <= b.address
               /\ b.address + b.size <= pages'[b.page].base + pages'[b.page].used
               /\ pages'[b.page].used <= page_size'
    <3>1. CASE b.page = current
      BY <1>1, <1>2, <1>3, <1>5, <2>1, <2>2, <3>1 DEF Block
    <3>2. CASE b.page # current
      BY <1>2, <1>5, <2>1, <3>2
    <3> QED
      BY <3>1, <3>2
  <2>4. /\ block.address % block.alignment = 0
        /\ block.page \in PageIds'
        /\ pages'[block.page].base <= block.address
        /\ block.address + block.size <= pages'[block.page].base + pages'[block.page].used
        /\ pages'[block.page].used <= page_size'
    BY <1>1, <1>2, <1>3, <1>4, <1>5, <2>2
  <2>5. ASSUME NEW b \in blocks PROVE ~Overlap(b, block) /\ ~Overlap(block, b)
    <3>1. CASE b.page = current
      BY <1>1, <1>3, <1>4, <2>1, <3>1 DEF Overlap, Block
    <3>2. CASE b.page # current
      <4>1. pages[b.page].base \in Nat /\ pages[b.page].used \in Nat
        BY <2>1, PageTyped
      <4>2. \/ pages[b.page].base + page_size <= pages[current].base
            \/ pages[current].base + page_size <= pages[b.page].base
        BY <1>1, <2>1, <3>2 DEF IInv, PagesApart
      <4> QED
        BY <1>1, <1>3, <1>4, <2>1, <2>2, <4>1, <4>2 DEF Overlap, Block
    <3> QED
      BY <3>1, <3>2
  <2>6. \A a, b \in blocks' : a # b => ~Overlap(a, b)
    BY <1>2, <2>5 DEF IInv, BlocksApart
  <2> QED
    BY <1>2, <2>3, <2>4, <2>6 DEF BlocksApart
<1> QED
  BY <1>6, <1>7, <1>8, <1>9, <1>10 DEF IInv

(* The steps of arena_init and arena_alloc that touch no page.               *)
LEMMA QuietStep ==
  ASSUME IInv, UNCHANGED <<first, current, page_count, pages, blocks>>,
         page_size' = page_size \/ (page_size = 0 /\ op = Idle /\ page_size' \in PageSizes),
         \/ op' = op
         \/ op' = Idle /\ op.pc # "destroy"
         \/ /\ op = Idle
            /\ op' \in AllocOp /\ op'.pc = "place"
            /\ page_size' # 0 /\ op'.size <= page_size'
  PROVE  IInv'
<1>1. PageIds' = PageIds /\ page_size' \in Nat
  BY RequestAssumption DEF PageIds, IInv, TypeOK
<1>2. TypeOK'
  BY <1>1 DEF IInv, TypeOK
<1>3. Head' = Head
  BY DEF Head, Idle, AllocOp
<1>4. Chain'
  BY <1>1, <1>3 DEF IInv, Chain
<1>5. page_size' # page_size => PageIds = {} /\ blocks = {} /\ page_count = 0
  <2>1. page_size' # page_size => page_count = 0 /\ op.pc # "destroy"
    BY DEF IInv, Progress, Idle
  <2> QED
    BY <2>1, WholeList DEF IInv, BlocksApart
<1>6. PagesApart'
  BY <1>1, <1>5 DEF IInv, PagesApart
<1>7. Progress'
  <2>1. CASE op' = op
    BY <1>1, <1>5, <2>1 DEF IInv, Progress, Placing, Idle
  <2>2. CASE op' = Idle /\ op.pc # "destroy"
    BY <1>1, <1>5, <2>2 DEF IInv, Progress, Placing, Idle
  <2>3. CASE op = Idle /\ op' \in AllocOp /\ op'.pc = "place"
             /\ page_size' # 0 /\ op'.size <= page_size'
    BY <1>1, <2>3 DEF IInv, Progress, Placing
  <2> QED
    BY <2>1, <2>2, <2>3
<1>8. BlocksApart'
  BY <1>1, <1>5 DEF IInv, BlocksApart, Overlap
<1> QED
  BY <1>2, <1>4, <1>6, <1>7, <1>8 DEF IInv

(* A destruction starts at the head of the list and has freed no page yet.   *)
LEMMA BeginDestroyStep ==
  ASSUME IInv, BeginDestroy
  PROVE  IInv'
<1>1. /\ op = Idle /\ op' = [pc |-> "destroy", page |-> first] /\ blocks' = {}
      /\ UNCHANGED <<page_size, first, current, page_count, pages, answer>>
      /\ PageIds' = PageIds
  BY DEF BeginDestroy, PageIds
<1>2. op' \in DestroyOp /\ Head' = Head
  BY <1>1 DEF IInv, TypeOK, DestroyOp, Head, Idle
<1>3. TypeOK'
  BY <1>1, <1>2 DEF IInv, TypeOK
<1>4. Chain' /\ PagesApart'
  BY <1>1, <1>2 DEF IInv, Chain, PagesApart
<1>5. Progress' /\ BlocksApart'
  BY <1>1, <1>2 DEF IInv, Progress, Placing, BlocksApart
<1> QED
  BY <1>3, <1>4, <1>5 DEF IInv

(* The page the list begins with is freed, the list then begins with its     *)
(* successor.                                                                *)
LEMMA FreeStep ==
  ASSUME IInv, FreePage
  PROVE  IInv'
<1>1. /\ op.pc = "destroy" /\ op.page # NULL /\ op \in DestroyOp /\ blocks = {}
      /\ op' = [op EXCEPT !.page = pages[op.page].next]
      /\ pages' = [p \in PageIds \ {op.page} |-> pages[p]]
      /\ UNCHANGED <<page_size, first, current, page_count, answer, blocks>>
  BY DEF FreePage, IInv, Progress
<1>2. /\ PageIds = op.page .. page_count - 1 /\ op.page \in 0 .. page_count - 1
      /\ page_count \in Nat
      /\ \A p \in PageIds : pages[p].next = (IF p + 1 < page_count THEN p + 1 ELSE NULL)
  BY <1>1 DEF IInv, Chain, Head, TypeOK
<1>3. /\ PageIds' = PageIds \ {op.page}
      /\ \A p \in PageIds' : pages'[p] = pages[p]
  BY <1>1 DEF PageIds
<1>4. /\ op'.pc = "destroy"
      /\ op'.page = (IF op.page + 1 < page_count THEN op.page + 1 ELSE NULL)
      /\ op' \in DestroyOp
  BY <1>1, <1>2 DEF DestroyOp
<1>5. TypeOK'
  <2>1. pages' \in [PageIds' -> ArenaPage] /\ PageIds' \subseteq 0 .. page_count - 1
    BY <1>1, <1>3 DEF IInv, TypeOK
  <2> QED
    BY <1>1, <1>4, <2>1 DEF IInv, TypeOK
<1>6. Chain'
  <2>1. Head' = op'.page
    BY <1>4 DEF Head
  <2>2. PageIds' = (IF op'.page = NULL THEN {} ELSE op'.page .. page_count - 1)
    BY <1>2, <1>3, <1>4 DEF NULL
  <2> QED
    BY <1>1, <1>2, <1>3, <1>4, <2>1, <2>2 DEF IInv, Chain, NULL
<1>7. PagesApart'
  BY <1>1, <1>3 DEF IInv, PagesApart
<1>8. Progress' /\ BlocksApart'
  BY <1>1, <1>4 DEF IInv, Progress, Placing, BlocksApart
<1> QED
  BY <1>5, <1>6, <1>7, <1>8 DEF IInv

(* A destruction that reached the end of the list leaves no page.            *)
LEMMA EndDestroyStep ==
  ASSUME IInv, EndDestroy
  PROVE  IInv'
<1>1. /\ op.pc = "destroy" /\ op.page = NULL /\ op' = Idle /\ blocks = {}
      /\ first' = NULL /\ current' = NULL /\ page_size' = 0 /\ page_count' = 0
      /\ UNCHANGED <<pages, blocks>>
  BY DEF EndDestroy, IInv, Progress
<1>2. PageIds = {} /\ PageIds' = PageIds
  BY <1>1 DEF IInv, Chain, Head, PageIds
<1>3. TypeOK'
  BY <1>1, <1>2 DEF IInv, TypeOK
<1>4. Chain' /\ PagesApart'
  BY <1>1, <1>2 DEF Chain, PagesApart, Head, Idle
<1>5. Progress' /\ BlocksApart'
  BY <1>1 DEF Progress, Placing, Idle, BlocksApart
<1> QED
  BY <1>3, <1>4, <1>5 DEF IInv

-----------------------------------------------------------------------------
(* The invariant *)

(* A new arena has no page and no block.                                     *)
THEOREM InitEstablishes == Init => IInv
<1> SUFFICES ASSUME Init PROVE IInv
  OBVIOUS
<1>1. PageIds = {} /\ op = Idle /\ Head = NULL
  BY DEF Init, PageIds, Head, Idle
<1>2. TypeOK
  BY <1>1 DEF Init, TypeOK
<1>3. Chain /\ PagesApart /\ Progress /\ BlocksApart
  BY <1>1 DEF Init, Chain, PagesApart, Progress, Placing, Idle, BlocksApart
<1> QED
  BY <1>2, <1>3 DEF IInv

(* One case per action of arena.c.                                           *)
THEOREM NextPreserves == IInv /\ [Next]_vars => IInv'
<1> SUFFICES ASSUME IInv, [Next]_vars PROVE IInv'
  OBVIOUS
<1>1. ASSUME NEW size \in PageSizes, InitArena(size)
      PROVE  IInv'
  BY <1>1, QuietStep DEF InitArena
<1>2. ASSUME NEW size \in Sizes, NEW alignment \in Alignments, RefuseAlloc(size, alignment)
      PROVE  IInv'
  BY <1>2, QuietStep DEF RefuseAlloc
<1>3. ASSUME NEW size \in Sizes, NEW alignment \in Alignments, BeginAlloc(size, alignment)
      PROVE  IInv'
  <2>1. alignment # 0
    BY <1>3 DEF BeginAlloc, ValidRequest, PowerOfTwo
  <2>2. op' \in AllocOp /\ op'.pc = "place" /\ op'.size = size
    BY <1>3, <2>1 DEF BeginAlloc, ValidRequest, AllocOp
  <2> QED
    BY <1>3, <2>2, QuietStep DEF BeginAlloc, ValidRequest
<1>4. CASE AddFirstPage \/ AddPage
  BY <1>4, AddStep
<1>5. CASE TakeBlock
  BY <1>5, TakeStep
<1>6. CASE FailAlloc
  BY <1>6, QuietStep DEF FailAlloc, Placing
<1>7. CASE BeginDestroy
  BY <1>7, BeginDestroyStep
<1>8. CASE FreePage
  BY <1>8, FreeStep
<1>9. CASE EndDestroy
  BY <1>9, EndDestroyStep
<1>10. CASE UNCHANGED vars
  BY <1>10, QuietStep DEF vars
<1> QED
  BY <1>1, <1>2, <1>3, <1>4, <1>5, <1>6, <1>7, <1>8, <1>9, <1>10 DEF Next

(* The inductive invariant holds in every state.                             *)
THEOREM Invariance == Spec => []IInv
<1> QED
  BY InitEstablishes, NextPreserves, PTL DEF Spec

(* The arena, its pages and its blocks keep their shape: `current' is the    *)
(* page created last.                                                        *)
THEOREM TypeCorrect == Spec => []TypeOK
<1>1. IInv => TypeOK
  BY DEF IInv
<1> QED
  BY <1>1, Invariance, PTL

(* A block that arena_alloc hands out is aligned, lies within the used bytes *)
(* of its page and shares none with another, whatever sizes and alignments   *)
(* are asked for in whatever order (arena.c:141).                            *)
THEOREM BlocksNeverMeet == Spec => []BlocksApart
<1>1. IInv => BlocksApart
  BY DEF IInv
<1> QED
  BY <1>1, Invariance, PTL

(* Wherever arena_destroy is in its list, every page that is still allocated *)
(* is ahead of it and none that it has freed.                                *)
THEOREM NoPageIsLost == Spec => []ListHoldsEveryPage
<1>1. ASSUME IInv PROVE ListHoldsEveryPage
  <2>1. /\ PageIds = (IF Head = NULL THEN {} ELSE Head .. page_count - 1)
        /\ Head # NULL => Head \in 0 .. page_count - 1
        /\ \A p \in PageIds : pages[p].next = (IF p + 1 < page_count THEN p + 1 ELSE NULL)
        /\ page_count \in Nat
    BY <1>1 DEF IInv, Chain, TypeOK
  <2>2. ASSUME NEW p \in PageIds, p # Head
        PROVE  \E q \in PageIds : pages[q].next = p
    <3>1. p - 1 \in PageIds /\ pages[p - 1].next = p
      BY <2>1, <2>2
    <3> QED
      BY <3>1
  <2> HIDE DEF PageIds, Head
  <2> QED
    BY <2>1, <2>2 DEF ListHoldsEveryPage, NULL
<1> QED
  BY <1>1, Invariance, PTL

(* On a page of its own, a request whose alignment malloc guarantees starts  *)
(* at the first byte and has room: only malloc can refuse it.                *)
THEOREM FreshPagesFit == Spec => []FreshPageFits
<1>1. ASSUME IInv PROVE FreshPageFits
  <2> SUFFICES ASSUME op.pc = "retry", MallocAlign % op.alignment = 0 PROVE HasRoom
    BY DEF FreshPageFits
  <2>1. /\ op \in AllocOp /\ op.size <= page_size /\ op.size \in Nat
        /\ op.alignment \in Nat \ {0}
        /\ current \in PageIds /\ pages[current].used = 0
    BY <1>1, RequestAssumption DEF IInv, Progress, Placing, AllocOp
  <2>2. pages[current].base \in Bases /\ pages[current].base \in Nat /\ current # NULL
    BY <1>1, <2>1, PageTyped DEF NULL
  <2>3. pages[current].base % op.alignment = 0
    BY <2>1, <2>2, BaseAssumption, Transitive
  <2>4. Aligned = pages[current].base
    <3>1. pages[current].base + pages[current].used = pages[current].base
      BY <2>1, <2>2
    <3> QED
      BY <2>1, <2>2, <2>3, <3>1, Alignment DEF Aligned
  <2>5. Padding = 0
    BY <2>1, <2>2, <2>4 DEF Padding
  <2> QED
    BY <2>1, <2>2, <2>5 DEF HasRoom
<1> QED
  BY <1>1, Invariance, PTL
===============================================================================
