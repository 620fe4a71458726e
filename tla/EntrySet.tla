------------------------------- MODULE EntrySet -------------------------------
(***************************************************************************)
(* What the AVL index promises its caller (src/AVL.h): a set of entries,   *)
(* no two with the same key (gpa, id).  A call that answers anything but   *)
(* "OK" has changed nothing.                                               *)
(***************************************************************************)
EXTENDS Integers, Sequences

CONSTANTS
  Entries, (* the entries that are inserted and deleted                    *)
  Arrays   (* the sequences of entries the index is built from             *)

VARIABLES
  entries, (* the entries in the index                                     *)
  answer   (* the call that answered last, and its error                   *)

vars == <<entries, answer>>

SameKey(a, b) == a.gpa = b.gpa /\ a.id = b.id

Has(entry) == \E e \in entries : SameKey(e, entry)

Answers(call, error) == answer' = [call |-> call, error |-> error]

Init == entries = {} /\ answer = [call |-> "init", error |-> "OK"]

Reset == entries' = {} /\ Answers("init", "OK")

Elements(array) == {array[i] : i \in DOMAIN array}

KeysDiffer(array) ==
  \A i, j \in DOMAIN array : i # j => ~SameKey(array[i], array[j])

Build(array) ==
  /\ entries = {} /\ KeysDiffer(array)
  /\ entries' = Elements(array)
  /\ Answers("build", "OK")

RefuseBuild(array) ==
  /\ \/ Answers("build", "DUPLICATE_KEY") /\ (entries # {} \/ ~KeysDiffer(array))
     \/ Answers("build", "ALLOCATION_FAILED") /\ entries = {} /\ KeysDiffer(array)
  /\ UNCHANGED entries

Insert(entry) ==
  /\ ~Has(entry)
  /\ entries' = entries \cup {entry}
  /\ Answers("insert", "OK")

RefuseInsert(entry) ==
  /\ Answers("insert", IF Has(entry) THEN "DUPLICATE_KEY" ELSE "ALLOCATION_FAILED")
  /\ UNCHANGED entries

Delete(entry) ==
  /\ entries' = {e \in entries : ~SameKey(e, entry)}
  /\ Answers("delete", IF Has(entry) THEN "OK" ELSE "NOT_FOUND")

Next ==
  \/ Reset
  \/ \E array \in Arrays : Build(array) \/ RefuseBuild(array)
  \/ \E entry \in Entries : Insert(entry) \/ RefuseInsert(entry) \/ Delete(entry)

Spec == Init /\ [][Next]_vars
===============================================================================
