--------------------------- MODULE FunctionHandles ----------------------------
(***************************************************************************)
(* The functions of a database as idalib hands them out: `function_at',    *)
(* `function_by_id', `function_count' and `functions' of idalib/src/idb.rs,*)
(* and the `Function' of idalib/src/func.rs, a raw pointer together with a *)
(* lock_func that keeps the kernel from deleting what it points to.        *)
(*                                                                         *)
(* The kernel numbers functions in the order of their addresses, so the    *)
(* numbers change when functions come and go.  They may do so at any time  *)
(* between two calls of the program, handles and iterators alive or not:   *)
(* running a plugin takes &self.                                           *)
(*                                                                         *)
(* A definition whose name starts with Faulty is the definition after it   *)
(* with a plausible mistake, kept to show that a property notices it.      *)
(***************************************************************************)
EXTENDS Naturals, FiniteSets, Ranks

CONSTANTS
    Addresses,    \* the addresses of the database
    Slots,        \* where the program keeps its Function values
    NoFunction    \* a null func_t, and an empty slot

ASSUME AddressesAssumption ==
    Addresses \subseteq Nat /\ IsFiniteSet(Addresses) /\ NoFunction \notin Addresses

ASSUME SlotsAssumption == IsFiniteSet(Slots)

VARIABLES
    funcs,     \* the kernel's functions: the last address of each, by its start
    locks,     \* how often the func_t at each address is locked
    held,      \* the func_t of the Function in each slot
    iter,      \* the range inside the iterator that `functions' returned
    listed,    \* the pairs of an id and a function it has returned
    ended,     \* it has returned None
    kept,      \* no function it returned was ever without a handle since
    grown      \* functions were created since it was made

vars == <<funcs, locks, held, iter, listed, ended, kept, grown>>

starts == DOMAIN funcs

\* Functions do not overlap.
Tables ==
    {f \in UNION {[S -> Addresses] : S \in SUBSET Addresses} :
        \A a, b \in DOMAIN f : a <= f[a] /\ (a < b => f[a] < b)}

Count == 0 .. Cardinality(Addresses)

TypeOK ==
    /\ funcs \in Tables
    /\ locks \in [Addresses -> Nat]
    /\ held \in [Slots -> Addresses \cup {NoFunction}]
    /\ iter \in [start : Count, end : Count]
    /\ listed \subseteq Count \X Addresses
    /\ ended \in BOOLEAN
    /\ kept \in BOOLEAN
    /\ grown \in BOOLEAN

\* A database as it was opened, and an iterator over nothing.
Init ==
    /\ funcs \in Tables
    /\ locks = [a \in Addresses |-> 0]
    /\ held = [s \in Slots |-> NoFunction]
    /\ iter = [start |-> 0, end |-> 0]
    /\ listed = {}
    /\ ended = TRUE
    /\ kept = FALSE
    /\ grown = TRUE

-----------------------------------------------------------------------------
(* The kernel.                                                             *)

\* getn_func, function_by_id: null beyond the last function.
GetNFunc(id) ==
    IF \E a \in starts : Rank(starts, a) = id
      THEN CHOOSE a \in starts : Rank(starts, a) = id
      ELSE NoFunction

\* get_func: the function that contains the address.
GetFunc(ea) ==
    IF \E a \in starts : a <= ea /\ ea <= funcs[a]
      THEN CHOOSE a \in starts : a <= ea /\ ea <= funcs[a]
      ELSE NoFunction

\* A plugin deletes, creates and resizes functions, but the kernel neither
\* deletes nor moves one that is locked.
RunPlugin ==
    /\ funcs' \in Tables
    /\ \A a \in starts : locks[a] > 0 => a \in DOMAIN funcs'
    /\ grown' = (grown \/ ~(DOMAIN funcs' \subseteq starts))
    /\ UNCHANGED <<locks, held, iter, listed, ended, kept>>

-----------------------------------------------------------------------------
(* Handles.                                                                *)

FaultyFromPtr(s, f) ==     \* the lock is dropped where from_ptr returns
    /\ held[s] = NoFunction
    /\ held' = [held EXCEPT ![s] = f]
    /\ UNCHANGED locks

\* Function::from_ptr, on a pointer that was checked for null.
FromPtr(s, f) ==
    /\ held[s] = NoFunction
    /\ held' = [held EXCEPT ![s] = f]
    /\ locks' = [locks EXCEPT ![f] = @ + 1]

\* IDB::function_at.
FunctionAt(s, ea) ==
    /\ GetFunc(ea) # NoFunction
    /\ FromPtr(s, GetFunc(ea))
    /\ UNCHANGED <<funcs, iter, listed, ended, kept, grown>>

\* IDB::function_by_id.
FunctionById(s, id) ==
    /\ GetNFunc(id) # NoFunction
    /\ FromPtr(s, GetNFunc(id))
    /\ UNCHANGED <<funcs, iter, listed, ended, kept, grown>>

\* Every function the iterator has returned has a handle.
AllHeld(h) == \A p \in listed : \E s \in Slots : h[s] = p[2]

FaultyDropFunction(s) ==   \* a Box that is leaked, and the lock with it
    /\ held[s] # NoFunction
    /\ held' = [held EXCEPT ![s] = NoFunction]
    /\ kept' = (kept /\ AllHeld(held'))
    /\ UNCHANGED <<funcs, locks, iter, listed, ended, grown>>

\* The program drops a Function, and with it its lock_func.
DropFunction(s) ==
    /\ held[s] # NoFunction
    /\ locks' = [locks EXCEPT ![held[s]] = @ - 1]
    /\ held' = [held EXCEPT ![s] = NoFunction]
    /\ kept' = (kept /\ AllHeld(held'))
    /\ UNCHANGED <<funcs, iter, listed, ended, grown>>

-----------------------------------------------------------------------------
(* The iterator.                                                           *)

FaultyFunctionCount == IF starts = {} THEN 0 ELSE Cardinality(starts) - 1

\* get_func_qty.
FunctionCount == Cardinality(starts)

\* IDB::functions: the count is taken when the iterator is made.
ListFunctions ==
    /\ iter' = [start |-> 0, end |-> FunctionCount]
    /\ listed' = {}
    /\ ended' = FALSE
    /\ kept' = TRUE
    /\ grown' = FALSE
    /\ UNCHANGED <<funcs, locks, held>>

\* The ids for which filter_map finds a function.
Found == {id \in iter.start .. iter.end - 1 : GetNFunc(id) # NoFunction}

FaultyNextFunction(s) ==   \* the range is walked from its end
    /\ ~ended
    /\ \E id \in Found :
         /\ \A other \in Found : other <= id
         /\ FromPtr(s, GetNFunc(id))
         /\ listed' = listed \cup {<<id, GetNFunc(id)>>}
         /\ iter' = [iter EXCEPT !.end = id]
    /\ UNCHANGED <<funcs, ended, kept, grown>>

FaultyStartNextFunction(s) ==   \* ids are those of one past the function
    /\ ~ended
    /\ \E id \in Found :
         /\ \A other \in Found : id <= other
         /\ FromPtr(s, GetNFunc(id))
         /\ listed' = listed \cup {<<id + 1, GetNFunc(id)>>}
         /\ iter' = [iter EXCEPT !.start = id + 1]
    /\ UNCHANGED <<funcs, ended, kept, grown>>

\* The iterator passes over ids that have no function any more and returns the
\* first that has one, with a handle.  A loop that drops the handle at the end
\* of its body is followed by DropFunction.
NextFunction(s) ==
    /\ ~ended
    /\ \E id \in Found :
         /\ \A other \in Found : id <= other
         /\ FromPtr(s, GetNFunc(id))
         /\ listed' = listed \cup {<<id, GetNFunc(id)>>}
         /\ iter' = [iter EXCEPT !.start = id + 1]
    /\ UNCHANGED <<funcs, ended, kept, grown>>

\* The range is used up.
EndOfList ==
    /\ ~ended
    /\ Found = {}
    /\ iter' = [iter EXCEPT !.start = iter.end]
    /\ ended' = TRUE
    /\ UNCHANGED <<funcs, locks, held, listed, kept, grown>>

Next ==
    \/ RunPlugin
    \/ \E s \in Slots, ea \in Addresses : FunctionAt(s, ea)
    \/ \E s \in Slots, id \in Count : FunctionById(s, id)
    \/ \E s \in Slots : DropFunction(s)
    \/ ListFunctions
    \/ \E s \in Slots : NextFunction(s)
    \/ EndOfList

Spec == Init /\ [][Next]_vars

-----------------------------------------------------------------------------
(* Properties.                                                             *)

\* Every Function the program holds points to a function that exists: the raw
\* pointer of func.rs never dangles, although several handles on one function
\* come and go in any order while plugins delete functions.  The refinement of
\* PinnedFunctions below contains it.
HandlesStayValid == \A s \in Slots : held[s] # NoFunction => held[s] \in starts

\* The slots with a handle on the function at a.
Holders(a) == {s \in Slots : held[s] = a}

\* A function is locked once for each handle on it and no more, so what the
\* program holds no longer can be deleted again.
LocksAreHandles == \A a \in Addresses : locks[a] = Cardinality(Holders(a))

\* If no function was created since, and those that were returned have never
\* been without a handle, then an id the iterator returned still finds its
\* function: holding the handles is what keeps the ids.
IdsStayTrue ==
    kept /\ ~grown => \A p \in listed : GetNFunc(p[1]) = p[2]

\* Under the same condition the iterator passes over nothing: when it ends,
\* every function there is was returned, although others were deleted.
KeptListingIsComplete ==
    kept /\ ~grown /\ ended => starts \subseteq {p[2] : p \in listed}

\* Deletions alone never make the iterator return a function twice.
NothingListedTwice ==
    ~grown => \A p, q \in listed : p[2] = q[2] => p = q

\* The handles keep the promise PinnedFunctions states: the lock counts are a
\* way to keep a function exactly as long as a handle on it is held.
Pinned == INSTANCE PinnedFunctions
ImplementsPinnedFunctions == Pinned!Spec
=============================================================================
