------------------------------ MODULE TodoItems ------------------------------
(***************************************************************************)
(* Abstract specification of what the Record Store promises about          *)
(* TodoItem rows (spec.md sections 3 and 4.1): an item is born once under  *)
(* a fresh identifier, Update replaces its description and due date but    *)
(* never its file id, and Delete removes it for good.  Every operation is   *)
(* a single atomic step here; TodoBus implements it with interleaved       *)
(* multi-step requests, and is checked to refine this module.              *)
(***************************************************************************)
CONSTANTS
    Ids,        \* identifiers uuid.New may hand out
    Descs,      \* description/due-date pairs, abstracted to model values
    FileIds,    \* file ids a record may carry (including the empty one)
    NoItem      \* no record under this identifier

VARIABLES
    items,      \* items[id]: the record stored under id, or NoItem
    retired     \* identifiers that have ever held a record

vars == <<items, retired>>

Item == [desc : Descs, fileId : FileIds]

TypeOK ==
    /\ items \in [Ids -> Item \cup {NoItem}]
    /\ retired \subseteq Ids

Init ==
    /\ items = [id \in Ids |-> NoItem]
    /\ retired = {}

\* A fresh identifier receives a record.
Create(id) ==
    /\ id \notin retired
    /\ \E it \in Item : items' = [items EXCEPT ![id] = it]
    /\ retired' = retired \cup {id}

\* An existing record gets a new description; its file id is kept.
Update(id) ==
    /\ items[id] # NoItem
    /\ \E d \in Descs : items' = [items EXCEPT ![id].desc = d]
    /\ UNCHANGED retired

\* An existing record is removed.
Delete(id) ==
    /\ items[id] # NoItem
    /\ items' = [items EXCEPT ![id] = NoItem]
    /\ UNCHANGED retired

Next == \E id \in Ids : Create(id) \/ Update(id) \/ Delete(id)

Spec == Init /\ [][Next]_vars
=============================================================================
