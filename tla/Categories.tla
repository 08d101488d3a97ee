----------------------------- MODULE Categories -----------------------------
(***************************************************************************)
(* The tree of categories: CategoryService.                                *)
(*                                                                         *)
(* A category may have a parent, and goes when its parent is deleted       *)
(* (onDelete CASCADE).  Handlers read a category, which a hidden one       *)
(* (deletedAt) is not found by, and save the copy.  Clients show the       *)
(* categories without a parent and what is below them.                     *)
(*                                                                         *)
(* Left out: names and types; that slugs are unique, by a constraint; the  *)
(* products of a category, which RemoveGroup of Catalogue deletes with it; *)
(* and restore, which changes nothing: it does not find hidden categories, *)
(* and refuses the others.                                                 *)
(***************************************************************************)
EXTENDS Parties

None == 0 \* no parent

HJob == [phase: {"idle", "loaded"}, op: {"none", "create", "update", "delete", "hide"},
         at: 0 .. MaxRows, moves: BOOLEAN, to: 0 .. MaxRows, kids: SUBSET Rows,
         ties: BOOLEAN]

IdleHJob == [phase |-> "idle", op |-> "none", at |-> 0, moves |-> FALSE, to |-> None,
             kids |-> {}, ties |-> FALSE]

VARIABLES
    filed,      \* how many categories were inserted
    categories, \* the numbers of the categories that are still there
    parent,     \* the parent of each
    off,        \* those with deletedAt
    hjob,       \* the requests in flight
    knotted     \* ghost: categories that a request put below what it had read to
                \* be below them, or moved while another move was under way

categoryVars == <<filed, categories, parent, off, hjob, knotted>>

HDatabase == <<filed, categories, parent, off, knotted>>

---------------------------------------------------------------------------

\* The categories below those in set, themselves included.
Below(set) ==
    {c \in categories :
        \A s \in SUBSET categories :
            /\ set \cap categories \subseteq s
            /\ \A d \in categories : parent[d] \in s => d \in s
            => c \in s}

HBusy == {k \in Clerks : hjob[k].phase # "idle"}

\* A request starts.  A move may tie a knot if it asks for that, or overlaps
\* with another one.
HStart(k, j) ==
    LET moving == {i \in HBusy : hjob[i].moves} IN
    /\ k \notin HBusy
    /\ hjob' = [i \in Clerks |->
                   IF i = k THEN [j EXCEPT !.phase = "loaded", !.ties = @ \/ moving # {}]
                   ELSE IF i \in moving /\ j.moves THEN [hjob[i] EXCEPT !.ties = TRUE]
                   ELSE hjob[i]]
    /\ UNCHANGED HDatabase

HDone(k) == hjob' = [hjob EXCEPT ![k] = IdleHJob]

---------------------------------------------------------------------------

\* p is the parent, if there is to be one.
CreateCategoryLoad(k, p) ==
    /\ Uses("createCategory")
    /\ p = None \/ p \in categories \ off
    /\ HStart(k, [IdleHJob EXCEPT !.op = "create", !.to = p])

\* The foreign key asks for the parent.
CreateCategorySave(k) ==
    LET j == hjob[k] IN
    /\ j.op = "create"
    /\ j.to = None \/ j.to \in categories
    /\ filed < inUse.rows
    /\ filed' = filed + 1
    /\ categories' = categories \cup {filed + 1}
    /\ parent' = [parent EXCEPT ![filed + 1] = j.to]
    /\ HDone(k)
    /\ UNCHANGED <<off, knotted>>

\* Mutant: a category may become its own parent.
MayMoveMutant(c, p) == p = None \/ p \in categories \ off

\* Whether category c may be put under p.
MayMove(c, p) == p = None \/ p \in (categories \ off) \ {c}

\* An update with a parent (or null), and one without.
UpdateCategoryLoad(k, c, moves, p) ==
    /\ Uses("updateCategory")
    /\ c \in categories \ off
    /\ IF moves THEN MayMove(c, p) ELSE p = None
    /\ HStart(k, [IdleHJob EXCEPT !.op = "update", !.at = c, !.moves = moves, !.to = p,
                     !.ties = p \in Below({c}) \ {c}])

\* The copy is not hidden.  A category deleted meanwhile is inserted again,
\* without a parent unless one was asked for.
UpdateCategorySave(k) ==
    LET j == hjob[k] IN
    /\ j.op = "update"
    /\ j.to = None \/ j.to \in categories
    /\ categories' = categories \cup {j.at}
    /\ off' = off \ {j.at}
    /\ parent' = IF j.moves \/ j.at \notin categories
                   THEN [parent EXCEPT ![j.at] = j.to] ELSE parent
    /\ knotted' = IF ~j.moves THEN knotted
                  ELSE IF j.ties THEN knotted \cup {j.at} ELSE knotted \ {j.at}
    /\ HDone(k)
    /\ UNCHANGED filed

\* The children are read along, but not the hidden ones.
DeleteCategoryLoad(k, c) ==
    /\ Uses("deleteCategory")
    /\ c \in categories \ off
    /\ HStart(k, [IdleHJob EXCEPT !.op = "delete", !.at = c,
                     !.kids = {d \in categories \ off : parent[d] = c}])

\* The children that were read go, wherever they are by now, and all that is
\* below any of them.
DeleteCategoryRemove(k) ==
    LET j == hjob[k]
        gone == Below({j.at} \cup j.kids)
    IN
    /\ j.op = "delete"
    /\ categories' = categories \ gone
    /\ off' = off \ gone
    /\ parent' = [c \in Rows |-> IF c \in gone THEN None ELSE parent[c]]
    /\ knotted' = knotted \ gone
    /\ HDone(k)
    /\ UNCHANGED filed

SoftDeleteLoad(k, c) ==
    /\ Uses("softDelete")
    /\ c \in categories \ off
    /\ HStart(k, [IdleHJob EXCEPT !.op = "hide", !.at = c])

\* A category deleted meanwhile is inserted again, hidden and without a parent.
SoftDeleteSave(k) ==
    LET j == hjob[k] IN
    /\ j.op = "hide"
    /\ categories' = categories \cup {j.at}
    /\ off' = off \cup {j.at}
    /\ HDone(k)
    /\ UNCHANGED <<filed, parent, knotted>>

\* A check refuses, a statement fails or the server stops.
HAbort(k) ==
    /\ k \in HBusy
    /\ HDone(k)
    /\ UNCHANGED HDatabase

---------------------------------------------------------------------------

HInit ==
    /\ filed = 0 /\ categories = {}
    /\ parent = [c \in Rows |-> None]
    /\ off = {}
    /\ hjob = [k \in Clerks |-> IdleHJob]
    /\ knotted = {}

\* The routes of CategoryController.
HNext ==
    \E k \in Clerks :
        \/ \E p \in {None} \cup categories :
              \/ CreateCategoryLoad(k, p)
              \/ \E c \in categories, moves \in BOOLEAN : UpdateCategoryLoad(k, c, moves, p)
        \/ \E c \in categories : DeleteCategoryLoad(k, c) \/ SoftDeleteLoad(k, c)
        \/ CreateCategorySave(k) \/ UpdateCategorySave(k)
        \/ DeleteCategoryRemove(k) \/ SoftDeleteSave(k)
        \/ HAbort(k)

---------------------------------------------------------------------------
(* Properties *)

\* From each category the parents lead to one that has none, unless on the way
\* is one that an update put below itself, or two moves overlapped: only then
\* do clients, who start from the top, lose categories (updateCategory, which
\* refuses no more than a category as its own parent; deleteCategory).
RootsReachable ==
    \A c \in categories :
        c \in Below({d \in categories : parent[d] = None \/ d \in knotted})

---------------------------------------------------------------------------
(* The inductive invariant behind the property *)

CategoriesTypeOK ==
    /\ filed \in 0 .. MaxRows
    /\ off \subseteq categories /\ categories \subseteq 1 .. filed
    /\ parent \in [Rows -> 0 .. MaxRows]
    /\ hjob \in [Clerks -> HJob]
    /\ knotted \subseteq Rows

\* A parent is there, and a category that goes leaves its own.
ParentsThere ==
    /\ \A c \in categories : parent[c] \in {None} \cup categories
    /\ \A c \in Rows \ categories : parent[c] = None

\* What a request is about was inserted; only updates move a category, and not
\* below itself.
HJobOK(j) ==
    /\ j.op \in {"update", "delete", "hide"} => j.at \in 1 .. filed
    /\ j.to \in 0 .. filed
    /\ j.moves => j.op = "update" /\ j.to # j.at
    /\ j.op = "update" /\ ~j.moves => j.to = None

NoneIdleMoves == \A k \in Clerks : hjob[k].phase = "idle" => ~hjob[k].moves

\* Of two moves that overlap each knows of the other.
MovesMeet ==
    \A k, i \in Clerks : k # i /\ hjob[k].moves /\ hjob[i].moves => hjob[k].ties

\* A move that ties no knot does not go below the category, at any time until
\* it is saved.
MovesUp ==
    \A k \in Clerks :
        hjob[k].moves /\ ~hjob[k].ties => hjob[k].to \notin Below({hjob[k].at})

CategoriesInv ==
    /\ inUse \in Mixes
    /\ CategoriesTypeOK
    /\ ParentsThere
    /\ \A k \in Clerks : HJobOK(hjob[k])
    /\ NoneIdleMoves
    /\ MovesMeet
    /\ MovesUp
    /\ RootsReachable

=============================================================================
