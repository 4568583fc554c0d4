-------------------------------- MODULE Views --------------------------------
(***************************************************************************)
(* The values a session hands out, what each of them borrows and what it   *)
(* points to: Function, FunctionCFG and BasicBlock of idalib/src/func.rs,  *)
(* Segment of segment.rs, CFunction, CBlock, CBlockIter and CInsn of       *)
(* decompiler.rs, Metadata and MetadataMut of meta.rs, Insn of insn.rs.    *)
(* Most of them are raw pointers.  The types say which other value each    *)
(* one borrows, and the compiler lets no value be moved, dropped or        *)
(* mutated as long as a value that borrows it will still be used; a lock,  *)
(* an owned flow chart or a counted reference keeps the rest.  The         *)
(* question is whether these together are enough.                          *)
(*                                                                         *)
(* A value that is in scope and not used any more is no borrow: none of    *)
(* the types has a Drop impl, and what their fields do when they are       *)
(* destroyed mentions no lifetime, so the drop check asks for nothing.     *)
(* Such a value may be destroyed after what it borrowed, even after the    *)
(* IDB.  A panic drops what its frames hold by the same rules, so it has   *)
(* no steps of its own.                                                    *)
(*                                                                         *)
(* Accessors that only read change nothing and are no steps.  A definition *)
(* whose name starts with Faulty is the definition after it with a         *)
(* plausible mistake, kept to show that a property notices it.             *)
(***************************************************************************)
EXTENDS Integers, FiniteSets

CONSTANTS
    Funcs,        \* the func_t of the kernel
    Segs,         \* the segment_t of the kernel
    Heap,         \* memory for flow charts and decompiled functions
    Slots,        \* the variables of the program
    MaxBlocks,    \* bound on the blocks of a flow chart
    Null          \* a null pointer, and an empty slot

ASSUME ViewsAssumption ==
    /\ MaxBlocks \in Nat
    /\ Funcs \cap Segs = {}
    /\ IsFiniteSet(Slots)

VARIABLES
    opened,       \* the IDB value exists
    decompiler,   \* the decompiler plugin is initialised
    tables,       \* the functions and segments the kernel has
    locks,        \* how often each of them is locked
    charts,       \* the flow charts on the heap
    cfuncs,       \* the reference counts of the decompiled functions there
    whole,        \* those of them that were decompiled without an error
    views,        \* the value in each slot
    unused,       \* the slots whose value has only its destruction to come
    late,         \* those of them whose session has ended
    undefined     \* a destructor ran on what was gone

vars == <<opened, decompiler, tables, locks, charts, cfuncs, whole, views, unused, late,
          undefined>>

Objects == Funcs \cup Segs
Blocks == Heap \X (0 .. MaxBlocks)
Charts == [func : Funcs, size : 0 .. MaxBlocks]

\* A Facade is any value with nothing to point to that could go before the
\* session does: Metadata, Processor, XRef, AddressFlags, the lists.
Kinds == {"Function", "Segment", "FunctionCFG", "BasicBlock", "CFunction", "CBlock",
          "CBlockIter", "CInsn", "Facade", "MetadataMut", "Insn"}

\* Besides the slots it borrows, every value but an Insn borrows the IDB.
View == [kind : Kinds, ptr : Objects \cup Heap \cup Blocks \cup {Null}, borrows : SUBSET Slots]

ASSUME NullAssumption == Null \notin View \cup Charts \cup Objects

TypeOK ==
    /\ opened \in BOOLEAN /\ decompiler \in BOOLEAN /\ undefined \in BOOLEAN
    /\ tables \subseteq Objects
    /\ locks \in [Objects -> Nat]
    /\ charts \in [Heap -> Charts \cup {Null}]
    /\ cfuncs \in [Heap -> Nat]
    /\ views \in [Slots -> View \cup {Null}]
    /\ whole \subseteq Heap
    /\ unused \subseteq Slots /\ late \subseteq unused

Init ==
    /\ opened = FALSE /\ decompiler = FALSE /\ undefined = FALSE
    /\ tables = {} /\ whole = {} /\ unused = {} /\ late = {}
    /\ locks = [o \in Objects |-> 0]
    /\ charts = [h \in Heap |-> Null]
    /\ cfuncs = [h \in Heap |-> 0]
    /\ views = [s \in Slots |-> Null]

-----------------------------------------------------------------------------
(* The rules of the compiler.                                              *)

\* A value that is there, and one the program will use again.
InScope(s, kind) == views[s] # Null /\ views[s].kind = kind
Held(s, kind) == InScope(s, kind) /\ s \notin unused

\* &self on the IDB: not while a MetadataMut is in use.
Shared == opened /\ \A s \in Slots : ~Held(s, "MetadataMut")

\* &mut self on the IDB, and the end of its life.  An Insn borrows nothing.
Unborrowed == opened /\ \A s \in Slots : views[s] # Null => s \in unused \/ Held(s, "Insn")

\* No value that is borrowed by one in use is moved, dropped or forgotten about.
Droppable(s) ==
    /\ views[s] # Null
    /\ \A t \in Slots : views[t] # Null /\ t \notin unused => s \notin views[t].borrows

\* The kinds whose destruction touches more than their own memory: a lock_func,
\* a lock_segment, a flow chart, a counted reference.
Destructible == {"Function", "Segment", "FunctionCFG", "CFunction"}

\* An empty slot receives a value.
Put(s, kind, ptr, borrows) ==
    /\ views[s] = Null
    /\ views' = [views EXCEPT ![s] = [kind |-> kind, ptr |-> ptr, borrows |-> borrows]]

-----------------------------------------------------------------------------
(* The session.                                                            *)

\* IDB::open, with or without a decompiler; Session has the detail.
Open ==
    /\ ~opened
    /\ opened' = TRUE
    /\ decompiler' \in BOOLEAN
    /\ tables' \in SUBSET Objects
    /\ UNCHANGED <<locks, charts, cfuncs, whole, views, unused, late, undefined>>

\* Drop for IDB: the decompiler goes, then the database and with it its
\* functions, segments and their locks.  What is still in scope is late.
Close ==
    /\ Unborrowed
    /\ opened' = FALSE
    /\ decompiler' = FALSE
    /\ tables' = {}
    /\ locks' = [o \in Objects |-> 0]
    /\ late' = unused
    /\ UNCHANGED <<charts, cfuncs, whole, views, unused, undefined>>

\* Plugin::run: functions and segments come and go, but for what is locked.
RunPlugin ==
    /\ Shared
    /\ tables' \in SUBSET Objects
    /\ \A o \in tables : locks[o] > 0 => o \in tables'
    /\ UNCHANGED <<opened, decompiler, locks, charts, cfuncs, whole, views, unused, late, undefined>>

-----------------------------------------------------------------------------
(* Functions and segments.                                                 *)

FaultyLock(o) == UNCHANGED locks

\* lock_func and lock_segment, taken by Function::from_ptr and Segment::from_ptr.
Lock(o) == locks' = [locks EXCEPT ![o] = @ + 1]

\* IDB::function_at and function_by_id.
FunctionAt(s, f) ==
    /\ Shared
    /\ f \in tables
    /\ Put(s, "Function", f, {})
    /\ Lock(f)
    /\ UNCHANGED <<opened, decompiler, tables, charts, cfuncs, whole, unused, late, undefined>>

\* IDB::segment_at, segment_by_id and segment_by_name.
SegmentAt(s, g) ==
    /\ Shared
    /\ g \in tables
    /\ Put(s, "Segment", g, {})
    /\ Lock(g)
    /\ UNCHANGED <<opened, decompiler, tables, charts, cfuncs, whole, unused, late, undefined>>

Fresh == {h \in Heap : charts[h] = Null /\ cfuncs[h] = 0}

FaultyCfg(s, f) ==         \* PhantomData<&'a IDB>
    \E h \in Fresh, size \in 1 .. MaxBlocks :
        /\ Held(f, "Function")
        /\ Put(s, "FunctionCFG", h, {})
        /\ charts' = [charts EXCEPT ![h] = [func |-> views[f].ptr, size |-> size]]
        /\ UNCHANGED <<opened, decompiler, tables, locks, cfuncs, whole, unused, late, undefined>>

\* Function::cfg: a flow chart of the function as it is now, which borrows it.
Cfg(s, f) ==
    \E h \in Fresh, size \in 1 .. MaxBlocks :
        /\ Held(f, "Function")
        /\ Put(s, "FunctionCFG", h, {f})
        /\ charts' = [charts EXCEPT ![h] = [func |-> views[f].ptr, size |-> size]]
        /\ UNCHANGED <<opened, decompiler, tables, locks, cfuncs, whole, unused, late, undefined>>

FaultyGetNBlock(h, n) == IF n <= charts[h].size THEN <<h, n>> ELSE Null

\* idalib_qflow_graph_getn_block.
GetNBlock(h, n) == IF n < charts[h].size THEN <<h, n>> ELSE Null

\* FunctionCFG::block_by_id, and entry, exit and blocks, which call it.
BlockById(s, c, n) ==
    /\ Held(c, "FunctionCFG")
    /\ GetNBlock(views[c].ptr, n) # Null
    /\ Put(s, "BasicBlock", GetNBlock(views[c].ptr, n), {c})
    /\ UNCHANGED <<opened, decompiler, tables, locks, charts, cfuncs, whole, unused, late, undefined>>

\* BasicBlock::succs_with and preds_with: the ids are those of the chart of the
\* block, and are looked up in the chart that is given.  The result lives no
\* longer than either; an id the other chart does not have is a panic, and no
\* block.
Neighbour(s, b, c, id) ==
    /\ Held(b, "BasicBlock")
    /\ Held(c, "FunctionCFG")
    /\ id < charts[views[b].ptr[1]].size
    /\ GetNBlock(views[c].ptr, id) # Null
    /\ Put(s, "BasicBlock", GetNBlock(views[c].ptr, id), views[b].borrows \cup {c})
    /\ UNCHANGED <<opened, decompiler, tables, locks, charts, cfuncs, whole, unused, late, undefined>>

-----------------------------------------------------------------------------
(* Decompiled functions.                                                   *)

\* What the SDK's decompile_func comes to: failure.code, negative if it failed,
\* and whether it returned a function.
Outcomes == [code : -1 .. 2, made : BOOLEAN]

FaultyHanded(outcome) == outcome.made

\* idalib_hexrays_decompile_func returns a copied reference, or null.
Handed(outcome) == outcome.code >= 0 /\ outcome.made

\* It reports the code only with a null: hexrays_error_t::default() has 0.
ReportedCode(outcome) == IF Handed(outcome) THEN 0 ELSE outcome.code

\* HexRaysErrorCode::from; the other codes have a variant each, or Unknown.
HexRaysErrorCode(code) == CASE code = 0 -> "Ok" [] code = 1 -> "Block" [] OTHER -> "Error"

\* HexRaysErrorCode::is_ok.
IsOk(code) == code \in {"Ok", "Block"}

\* The references of one call: decompile_func of the SDK makes one for the local
\* variable of the shim, which hands out a copy and drops its own on every path,
\* and decompile_func of idalib-sys drops the copy if the code says error.
Made(outcome) == IF outcome.made THEN 1 ELSE 0
Copied(outcome) == IF Handed(outcome) THEN 1 ELSE 0
Succeeds(outcome) == Handed(outcome) /\ IsOk(HexRaysErrorCode(ReportedCode(outcome)))

FaultyLocalDropped(outcome) == Copied(outcome)    \* cf.release() before the null is returned

LocalDropped(outcome) == Made(outcome)

CopyDropped(outcome) == IF Succeeds(outcome) THEN 0 ELSE Copied(outcome)

DecompileFunc(h, outcome) ==
    /\ cfuncs' = [cfuncs EXCEPT ![h] = Made(outcome) + Copied(outcome) - LocalDropped(outcome)
                                                     - CopyDropped(outcome)]
    /\ whole' = IF outcome.code >= 0 /\ cfuncs'[h] > 0 THEN whole \cup {h} ELSE whole

\* IDB::decompile_with: a decompiled function that is not in the SDK's cache, or
\* an error.  The result borrows the IDB, but not the Function it was made from.
Decompile(s, f) ==
    \E h \in Fresh, outcome \in Outcomes :
        /\ Shared /\ decompiler
        /\ Held(f, "Function")
        /\ \/ Succeeds(outcome) /\ Put(s, "CFunction", h, {})
           \/ ~Succeeds(outcome) /\ UNCHANGED views
        /\ DecompileFunc(h, outcome)
        /\ UNCHANGED <<opened, decompiler, tables, locks, charts, unused, late, undefined>>

\* CFunction::body, CBlock::iter and CBlockIter::next.  An instruction outlives
\* the iterator it came from, but not the block.
Part(kind, of, s, v, borrows) ==
    /\ Held(v, of)
    /\ Put(s, kind, views[v].ptr, borrows)
    /\ UNCHANGED <<opened, decompiler, tables, locks, charts, cfuncs, whole, unused, late, undefined>>

Body(s, c) == Part("CBlock", "CFunction", s, c, {c})

CBlockIter(s, b) == Part("CBlockIter", "CBlock", s, b, {b})

CInsn(s, i) == Held(i, "CBlockIter") /\ Part("CInsn", "CBlockIter", s, i, views[i].borrows)

-----------------------------------------------------------------------------
(* Values without a pointer.                                               *)

\* IDB::meta, processor, first_xref_to, flags_at, strings, names, bookmarks.
Facade(s) ==
    /\ Shared
    /\ Put(s, "Facade", Null, {})
    /\ UNCHANGED <<opened, decompiler, tables, locks, charts, cfuncs, whole, unused, late, undefined>>

\* IDB::insn_at: a copy.
InsnAt(s) ==
    /\ Shared
    /\ Put(s, "Insn", Null, {})
    /\ UNCHANGED <<opened, decompiler, tables, locks, charts, cfuncs, whole, unused, late, undefined>>

\* IDB::meta_mut.
MetaMut(s) ==
    /\ Unborrowed
    /\ Put(s, "MetadataMut", Null, {})
    /\ UNCHANGED <<opened, decompiler, tables, locks, charts, cfuncs, whole, unused, late, undefined>>

-----------------------------------------------------------------------------
(* The end of a value.                                                     *)

\* The program has used the value for the last time, and leaves it in scope.
Disuse(s) ==
    /\ Droppable(s)
    /\ views[s].kind \in Destructible /\ s \notin unused
    /\ unused' = unused \cup {s}
    /\ UNCHANGED <<opened, decompiler, tables, locks, charts, cfuncs, whole, views, late, undefined>>

\* What a destructor needs of the session is gone.
TooLate(s) == s \in late /\ views[s].kind # "FunctionCFG"

\* The value is destroyed: a lock is given back, a flow chart freed, a reference
\* counted down.
Drop(s) ==
    /\ Droppable(s) /\ ~TooLate(s)
    /\ views' = [views EXCEPT ![s] = Null]
    /\ unused' = unused \ {s}
    /\ late' = late \ {s}
    /\ LET v == views[s] IN
         /\ locks' = IF v.kind \in {"Function", "Segment"}
                     THEN [locks EXCEPT ![v.ptr] = @ - 1] ELSE locks
         /\ charts' = IF v.kind = "FunctionCFG" THEN [charts EXCEPT ![v.ptr] = Null] ELSE charts
         /\ cfuncs' = IF v.kind = "CFunction" THEN [cfuncs EXCEPT ![v.ptr] = @ - 1] ELSE cfuncs
         /\ whole' = IF v.kind = "CFunction" THEN whole \ {v.ptr} ELSE whole
    /\ UNCHANGED <<opened, decompiler, tables, undefined>>

\* unlock_func and unlock_segment on what the database took with it, and the
\* release of a cfuncptr_t without a decompiler.  Nothing can be said of what
\* follows.
DropTooLate(s) ==
    /\ Droppable(s) /\ TooLate(s)
    /\ undefined' = TRUE
    /\ UNCHANGED <<opened, decompiler, tables, locks, charts, cfuncs, whole, views, unused, late>>

Step ==
    \/ Open \/ Close \/ RunPlugin
    \/ \E s \in Slots :
         \/ \E f \in Funcs : FunctionAt(s, f)
         \/ \E g \in Segs : SegmentAt(s, g)
         \/ Facade(s) \/ InsnAt(s) \/ MetaMut(s)
         \/ Disuse(s) \/ Drop(s) \/ DropTooLate(s)
         \/ \E v \in Slots :
              \/ Cfg(s, v) \/ Decompile(s, v) \/ Body(s, v) \/ CBlockIter(s, v) \/ CInsn(s, v)
              \/ \E n \in 0 .. MaxBlocks : BlockById(s, v, n)
              \/ \E c \in Slots, id \in 0 .. MaxBlocks : Neighbour(s, v, c, id)

Next == ~undefined /\ Step

Spec == Init /\ [][Next]_vars

-----------------------------------------------------------------------------
(* Properties.                                                             *)

\* What a value's accessors read through its pointer.  The block types of a
\* flow chart are computed from the function it was made of.
FunctionIsLive(v) == opened /\ v.ptr \in tables
SegmentIsLive(v) == opened /\ v.ptr \in tables
CfgIsLive(v) == opened /\ charts[v.ptr] # Null /\ charts[v.ptr].func \in tables
BlockIsLive(v) ==
    /\ charts[v.ptr[1]] # Null
    /\ v.ptr[2] < charts[v.ptr[1]].size
CFunctionIsLive(v) == decompiler /\ cfuncs[v.ptr] > 0 /\ v.ptr \in whole
FacadeIsLive(v) == opened

\* The fields of an Insn and its operands are a copy.
InsnIsLive(v) == TRUE

Live(v) ==
    CASE v.kind = "Function" -> FunctionIsLive(v)
      [] v.kind = "Segment" -> SegmentIsLive(v)
      [] v.kind = "FunctionCFG" -> CfgIsLive(v)
      [] v.kind = "BasicBlock" -> BlockIsLive(v)
      [] v.kind \in {"CFunction", "CBlock", "CBlockIter", "CInsn"} -> CFunctionIsLive(v)
      [] v.kind \in {"Facade", "MetadataMut"} -> FacadeIsLive(v)
      [] v.kind = "Insn" -> InsnIsLive(v)

\* What a value's destructor touches.
Destroyable(v) ==
    CASE v.kind \in {"Function", "Segment"} -> opened /\ v.ptr \in tables /\ locks[v.ptr] > 0
      [] v.kind = "FunctionCFG" -> charts[v.ptr] # Null
      [] v.kind = "CFunction" -> decompiler /\ cfuncs[v.ptr] > 0
      [] OTHER -> FALSE

\* No accessor reads what is gone, and no destructor of the open session touches
\* it: through chains of borrows, of blocks reached through a foreign flow chart
\* and of instructions that outlive their iterator, the lifetimes in the types
\* together with the locks and counts keep everything alive that a value in use
\* points to, and what a destructor gives back also when the value stood unused
\* while plugins ran.  Only functions that were decompiled successfully get
\* there.
NothingDangles ==
    \A s \in Slots : views[s] # Null =>
        \/ s \in late
        \/ s \notin unused /\ Live(views[s])
        \/ s \in unused /\ Destroyable(views[s])

\* A session leaves nothing behind, however its calls failed, but what the
\* destructors of values still in scope will give back: a lock for each Function
\* and Segment, a flow chart and a decompiled function that has an owner.  A
\* program that destroys its values before the IDB leaves nothing.
NothingLeftAtClose ==
    [][opened /\ ~opened' =>
         /\ \A o \in Objects :
              locks[o] = Cardinality({s \in unused \ late :
                             views[s].kind \in {"Function", "Segment"} /\ views[s].ptr = o})
         /\ \A h \in Heap \ Fresh : \E s \in unused : views[s].ptr = h]_vars

\* Functions and segments in use together keep the promise PinnedFunctions
\* states, over sessions that end and begin again: a session hands out only what
\* its kernel has, and nobody deletes it, the end of the session included,
\* before the value has been used for the last time.
LockedObject(s) == IF Held(s, "Function") \/ Held(s, "Segment") THEN views[s].ptr ELSE Null
Pinned == INSTANCE PinnedFunctions WITH
    Addresses <- Objects, NoFunction <- Null,
    starts <- tables, held <- [s \in Slots |-> LockedObject(s)]
ImplementsPinnedFunctions == Pinned!Spec

\* Of a session Views takes for granted what Session is shown to keep.
Life == INSTANCE SessionLife
ImplementsSessionLife == Life!Spec
=============================================================================
