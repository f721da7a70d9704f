------------------------------ MODULE MCItems ------------------------------
(***************************************************************************)
(* Instances of Items for TLC.                                             *)
(***************************************************************************)
EXTENDS Items, TLC

\* The vote calls "ice cream" dairy, an anchor or not; a "milk crate" is near
\* nothing, but has a word of the table in it; "semifreddo", near ice cream, none.
Score ==
  [d \in Descriptions |->
    CASE d = "ice cream" -> <<6, 2, 8, 10>>
      [] d = "semifreddo" -> <<2, 1, 7, 9>>
      [] d = "milk crate" -> <<1, 4, 1, 0>>]

OneUser == {CHOOSE u \in Users : TRUE}
NoAsks == [op \in Ops |-> {}]
Given(d, c) == [description |-> d, category |-> c]

\* Three mixes, about documents that have nothing to do with each other.
\* New items and restarts: the categories.
Categorizing ==
  [members |-> OneUser, items |-> 1, deploys |-> TRUE, ends |-> FALSE,
   asks |-> [NoAsks EXCEPT !["createItem"] =
     {Given("ice cream", ""), Given("milk crate", "")}]]

\* Shopping, while the list may be voted out.
Shopping ==
  [members |-> OneUser, items |-> 2, deploys |-> FALSE, ends |-> TRUE,
   asks |-> [NoAsks EXCEPT
     !["createItem"] = {Given("semifreddo", "Frozen"), Given("ice cream", "")},
     !["updateItem"] = {[completed |-> TRUE], [completed |-> FALSE],
                        [description |-> "ice cream", completed |-> TRUE]},
     !["archive"] = {<<>>}, !["deleteItem"] = {<<>>}]]

\* Lists and the room are edited, while they may come to their end.
Editing ==
  [members |-> Users, items |-> 0, deploys |-> FALSE, ends |-> TRUE,
   asks |-> [NoAsks EXCEPT
     !["updateList"] = {[name |-> "a", icon |-> Invalid], [name |-> "b", description |-> "b"],
                        [name |-> Invalid, notes |-> "c"], [icon |-> "c", notes |-> Invalid]},
     !["settings"] = {[display_name |-> "a", description |-> "b"], [display_name |-> "c"],
                      [display_name |-> "d", description |-> Invalid]}]]

AllMixes == {Categorizing, Shopping, Editing}

Symmetry == Permutations(Items) \cup Permutations(Requests)
=============================================================================
