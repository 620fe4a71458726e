-------------------------------- MODULE Arena --------------------------------
(***************************************************************************)
(* The arena allocator of the indexes (src/arena.c): blocks are cut from   *)
(* pages one after the other, a page that has no room left is followed by  *)
(* a new one, and nothing is given back until arena_destroy frees the      *)
(* pages one by one along their list.                                      *)
(*                                                                         *)
(* Pages are numbered in the order of their allocation.  `blocks' is a     *)
(* history variable, the blocks handed out since arena_init: no action     *)
(* reads it.                                                               *)
(***************************************************************************)
EXTENDS Integers, FiniteSets

CONSTANTS
  PageSizes,   (* the sizes arena_init is called with                      *)
  Sizes,       (* the sizes, ...                                           *)
  Alignments,  (* ... and alignments asked of arena_alloc                  *)
  Bases,       (* the addresses malloc may give to the memory of a page    *)
  MallocAlign  (* what malloc aligns them to                               *)

ASSUME RequestAssumption == PageSizes \subseteq Nat /\ Sizes \subseteq Nat /\ Alignments \subseteq Nat
ASSUME BaseAssumption    == /\ MallocAlign \in Nat \ {0}
                            /\ \A base \in Bases : base \in Nat /\ base % MallocAlign = 0

VARIABLES
  page_size,  (* Arena.page_size                                           *)
  first,      (* Arena.first                                               *)
  current,    (* Arena.current                                             *)
  page_count, (* pages created since arena_init                            *)
  pages,      (* those that are allocated                                  *)
  op,         (* the arena_alloc or arena_destroy in progress              *)
  answer,     (* what the call that returned last answered                 *)
  blocks      (* history: the blocks handed out                            *)

vars == <<page_size, first, current, page_count, pages, op, answer, blocks>>

NULL == -1

PageIds == DOMAIN pages

ArenaPage == [base : Bases, used : Nat, next : Nat \cup {NULL}]

Block == [page : Nat, address : Nat, size : Nat, alignment : Nat]

Idle == [pc |-> "idle"]

(* "place": the first attempt of arena_alloc; "retry": the one on a page     *)
(* added for it; "destroy": the loop of arena_destroy.                       *)
AllocOp   == [pc : {"place", "retry"}, size : Sizes \ {0}, alignment : Alignments \ {0}]
DestroyOp == [pc : {"destroy"}, page : Nat \cup {NULL}]

Init ==
  /\ page_size = 0
  /\ first = NULL
  /\ current = NULL
  /\ page_count = 0
  /\ pages = [p \in {} |-> 0]
  /\ op = Idle
  /\ answer = "none"
  /\ blocks = {}

(* The engine initialises an arena that it has zeroed or destroyed.          *)
InitArena(size) ==
  /\ op = Idle
  /\ page_size = 0
  /\ page_size' = size
  /\ answer' = IF size = 0 THEN "INVALID_PAGE_SIZE" ELSE "OK"
  /\ UNCHANGED <<first, current, page_count, pages, op, blocks>>

-----------------------------------------------------------------------------
(* arena_alloc *)

PowerOfTwo(alignment) == alignment # 0 /\ \E k \in 0 .. alignment : 2 ^ k = alignment

ValidRequest(size, alignment) ==
  /\ size # 0
  /\ page_size # 0
  /\ PowerOfTwo(alignment)
  /\ size <= page_size

RefuseAlloc(size, alignment) ==
  /\ op = Idle
  /\ ~ValidRequest(size, alignment)
  /\ answer' = "NULL"
  /\ UNCHANGED <<page_size, first, current, page_count, pages, op, blocks>>

BeginAlloc(size, alignment) ==
  /\ op = Idle
  /\ ValidRequest(size, alignment)
  /\ op' = [pc |-> "place", size |-> size, alignment |-> alignment]
  /\ answer' = "none"
  /\ UNCHANGED <<page_size, first, current, page_count, pages, blocks>>

Placing == op.pc \in {"place", "retry"}

(* Where malloc may put the memory of one more page.                         *)
FreeBases ==
  {base \in Bases :
     \A p \in PageIds : base + page_size <= pages[p].base \/ pages[p].base + page_size <= base}

(* Mutant: the arena goes on with the page that is full.                     *)
CreatePageBehind(linked) ==
  \E base \in FreeBases :
    /\ pages' = [p \in PageIds \cup {page_count} |->
                   IF p = page_count THEN [base |-> base, used |-> 0, next |-> NULL] ELSE linked[p]]
    /\ current' = IF current = NULL THEN page_count ELSE current
    /\ page_count' = page_count + 1

(* arena_create_page, and the page in the list after `linked'.               *)
CreatePage(linked) ==
  \E base \in FreeBases :
    /\ pages' = [p \in PageIds \cup {page_count} |->
                   IF p = page_count THEN [base |-> base, used |-> 0, next |-> NULL] ELSE linked[p]]
    /\ current' = page_count
    /\ page_count' = page_count + 1

AddFirstPage ==
  /\ Placing
  /\ current = NULL
  /\ CreatePage(pages)
  /\ first' = current'
  /\ UNCHANGED <<page_size, op, answer, blocks>>

(* Mutant: an address that is aligned is moved too.                          *)
AlignBeyond(address, alignment) == address + alignment - (address % alignment)

(* arena_align_forward: add the mask, then clear its bits.                   *)
AlignForward(address, alignment) ==
  (address + alignment - 1) - ((address + alignment - 1) % alignment)

Aligned == AlignForward(pages[current].base + pages[current].used, op.alignment)

Padding == Aligned - (pages[current].base + pages[current].used)

(* A page whose padding alone exceeds it has no room either.                 *)
HasRoom ==
  /\ current # NULL
  /\ pages[current].used + Padding + op.size <= page_size

(* Mutant: the new page is linked behind the first one.                      *)
AddPageBehindFirst ==
  /\ op.pc = "place"
  /\ current # NULL
  /\ ~HasRoom
  /\ CreatePage([pages EXCEPT ![first].next = page_count])
  /\ op' = [op EXCEPT !.pc = "retry"]
  /\ UNCHANGED <<page_size, first, answer, blocks>>

AddPage ==
  /\ op.pc = "place"
  /\ current # NULL
  /\ ~HasRoom
  /\ CreatePage([pages EXCEPT ![current].next = page_count])
  /\ op' = [op EXCEPT !.pc = "retry"]
  /\ UNCHANGED <<page_size, first, answer, blocks>>

(* Mutant: the padding is not counted as used.                               *)
TakeBlockUnpadded ==
  /\ Placing
  /\ HasRoom
  /\ pages' = [pages EXCEPT ![current].used = @ + op.size]
  /\ blocks' = blocks \cup {[page |-> current, address |-> Aligned,
                             size |-> op.size, alignment |-> op.alignment]}
  /\ answer' = "block"
  /\ op' = Idle
  /\ UNCHANGED <<page_size, first, current, page_count>>

TakeBlock ==
  /\ Placing
  /\ HasRoom
  /\ pages' = [pages EXCEPT ![current].used = @ + Padding + op.size]
  /\ blocks' = blocks \cup {[page |-> current, address |-> Aligned,
                             size |-> op.size, alignment |-> op.alignment]}
  /\ answer' = "block"
  /\ op' = Idle
  /\ UNCHANGED <<page_size, first, current, page_count>>

(* malloc refuses the page that is missing, or the alignment leaves no room  *)
(* even on a fresh one, which then stays in the list.                        *)
FailAlloc ==
  /\ Placing
  /\ ~HasRoom
  /\ answer' = "NULL"
  /\ op' = Idle
  /\ UNCHANGED <<page_size, first, current, page_count, pages, blocks>>

-----------------------------------------------------------------------------
(* arena_destroy *)

BeginDestroy ==
  /\ op = Idle
  /\ op' = [pc |-> "destroy", page |-> first]
  /\ blocks' = {}
  /\ UNCHANGED <<page_size, first, current, page_count, pages, answer>>

(* Mutant: an empty page is passed over, and the loop stays at it.           *)
FreeUsedPage ==
  /\ op.pc = "destroy"
  /\ op.page # NULL
  /\ IF pages[op.page].used = 0 THEN UNCHANGED <<op, pages>>
     ELSE /\ op' = [op EXCEPT !.page = pages[op.page].next]
          /\ pages' = [p \in PageIds \ {op.page} |-> pages[p]]
  /\ UNCHANGED <<page_size, first, current, page_count, answer, blocks>>

(* `next' is read before the page is freed.                                  *)
FreePage ==
  /\ op.pc = "destroy"
  /\ op.page # NULL
  /\ op' = [op EXCEPT !.page = pages[op.page].next]
  /\ pages' = [p \in PageIds \ {op.page} |-> pages[p]]
  /\ UNCHANGED <<page_size, first, current, page_count, answer, blocks>>

EndDestroy ==
  /\ op.pc = "destroy"
  /\ op.page = NULL
  /\ first' = NULL
  /\ current' = NULL
  /\ page_size' = 0
  /\ page_count' = 0
  /\ answer' = "destroyed"
  /\ op' = Idle
  /\ UNCHANGED <<pages, blocks>>

Next ==
  \/ \E size \in PageSizes : InitArena(size)
  \/ \E size \in Sizes, alignment \in Alignments :
       RefuseAlloc(size, alignment) \/ BeginAlloc(size, alignment)
  \/ AddFirstPage \/ AddPage \/ TakeBlock \/ FailAlloc
  \/ BeginDestroy \/ FreePage \/ EndDestroy

(* A call that has begun goes on: the program has no other thread.           *)
Fairness == WF_vars(FreePage \/ EndDestroy)

Spec == Init /\ [][Next]_vars /\ Fairness

-----------------------------------------------------------------------------
(* Properties *)

(* Type invariant.                                                           *)
TypeOK ==
  /\ page_size \in Nat
  /\ page_count \in Nat
  /\ pages \in [PageIds -> ArenaPage]
  /\ PageIds \subseteq 0 .. page_count - 1
  /\ first \in {NULL, 0}
  /\ current \in {NULL, page_count - 1}
  /\ op = Idle \/ op \in AllocOp \/ op \in DestroyOp
  /\ blocks \subseteq Block

Overlap(a, b) ==
  /\ a.address < b.address + b.size
  /\ b.address < a.address + a.size

(* Every block handed out has its alignment and lies within the used bytes   *)
(* of a page, and no two share a byte: a node of an index never runs into    *)
(* its neighbour or beyond its page, not even when padding or the request    *)
(* fills the page to the last byte (arena.c:141).                            *)
BlocksApart ==
  /\ \A b \in blocks :
       /\ b.address % b.alignment = 0
       /\ b.page \in PageIds
       /\ pages[b.page].base <= b.address
       /\ b.address + b.size <= pages[b.page].base + pages[b.page].used
       /\ pages[b.page].used <= page_size
  /\ \A a, b \in blocks : a # b => ~Overlap(a, b)

(* The page arena_destroy comes to next: the head of the list outside it.    *)
Head == IF op.pc = "destroy" THEN op.page ELSE first

(* Every allocated page is ahead of arena_destroy, which neither forgets one *)
(* nor comes back to one it has freed: the list from its place leads through *)
(* each page, to later ones only.  When the list has come to its end, no     *)
(* page is left.                                                             *)
ListHoldsEveryPage ==
  /\ \A p \in PageIds : p = Head \/ \E q \in PageIds : pages[q].next = p
  /\ \A p \in PageIds : pages[p].next # NULL => pages[p].next \in PageIds /\ pages[p].next > p
  /\ Head # NULL => Head \in PageIds

(* A request whose alignment malloc itself guarantees, as those of both      *)
(* indexes are, fails only when malloc refuses a page.                       *)
FreshPageFits == op.pc = "retry" /\ MallocAlign % op.alignment = 0 => HasRoom

(* The loop of arena_destroy comes to the end of the list.                   *)
DestroyEnds == op.pc = "destroy" ~> op = Idle
===============================================================================
