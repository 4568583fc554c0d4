----------------------------- MODULE ViewsProofs ----------------------------
(***************************************************************************)
(* Proofs about Views, for any finite number of values in the program's    *)
(* hands and any number of functions, segments, flow charts and decompiled *)
(* functions: nothing dangles, a session leaves nothing behind that no     *)
(* value owns, and functions and segments implement PinnedFunctions.       *)
(***************************************************************************)
EXTENDS Views, FiniteSetTheorems, TLAPS

-----------------------------------------------------------------------------
(* The inductive invariant.                                                *)

\* The value in slot s borrows one of the given kind, which is therefore in use
\* itself and shows that...
Borrowed(s, p, kind) == p \in views[s].borrows /\ Held(p, kind)

\* ... the memory a value in use points to has an owner.
Sound(s) ==
    LET v == views[s] IN
    /\ v.kind # "Insn" => opened
    /\ v.kind = "Function" => v.ptr \in Funcs /\ v.ptr \in tables
    /\ v.kind = "Segment" => v.ptr \in Segs /\ v.ptr \in tables
    /\ v.kind = "FunctionCFG" =>
         /\ v.ptr \in Heap
         /\ charts[v.ptr] # Null
         /\ \E f \in Slots :
              Borrowed(s, f, "Function") /\ charts[v.ptr].func = views[f].ptr
    /\ v.kind = "BasicBlock" =>
         \E c \in Slots, n \in Nat :
              /\ Borrowed(s, c, "FunctionCFG")
              /\ v.ptr = <<views[c].ptr, n>>
              /\ n < charts[views[c].ptr].size
    /\ v.kind = "CFunction" =>
         v.ptr \in Heap /\ decompiler /\ cfuncs[v.ptr] = 1 /\ v.ptr \in whole
    /\ v.kind = "CBlock" =>
         \E c \in Slots : Borrowed(s, c, "CFunction") /\ v.ptr = views[c].ptr
    /\ v.kind \in {"CBlockIter", "CInsn"} =>
         \E b \in Slots : Borrowed(s, b, "CBlock") /\ v.ptr = views[b].ptr

\* A value that only waits for its destruction owns what it will free, and while
\* its session lasts what it will give back is there.
Pending(s) ==
    LET v == views[s] IN
    /\ v.kind \in Destructible
    /\ v.kind = "Function" => v.ptr \in Funcs
    /\ v.kind = "Segment" => v.ptr \in Segs
    /\ v.kind = "FunctionCFG" => v.ptr \in Heap /\ charts[v.ptr] # Null
    /\ v.kind = "CFunction" => v.ptr \in Heap /\ cfuncs[v.ptr] = 1
    /\ s \notin late =>
         /\ opened
         /\ v.kind \in {"Function", "Segment"} => v.ptr \in tables
         /\ v.kind = "CFunction" => decompiler

AllSound == \A s \in Slots : views[s] # Null /\ s \notin unused => Sound(s)
AllPending == \A s \in unused : views[s] # Null /\ Pending(s)

\* Memory has at most one owner ...
OneOwner ==
    \A s, t \in Slots, kind \in {"FunctionCFG", "CFunction"} :
        InScope(s, kind) /\ InScope(t, kind) /\ views[s].ptr = views[t].ptr => s = t

\* ... and, while it is in use, at least one.
NoLeak ==
    \A h \in Heap :
        /\ charts[h] # Null => \E s \in Slots : InScope(s, "FunctionCFG") /\ views[s].ptr = h
        /\ cfuncs[h] # 0 => \E s \in Slots : InScope(s, "CFunction") /\ views[s].ptr = h

\* Every lock is somebody's.
Pins(s) == InScope(s, "Function") \/ InScope(s, "Segment")
Holders(o) == {s \in Slots \ late : Pins(s) /\ views[s].ptr = o}

LocksAreHolders == \A o \in Objects : locks[o] = Cardinality(Holders(o))

Inv ==
    /\ TypeOK
    /\ AllSound
    /\ AllPending
    /\ OneOwner
    /\ NoLeak
    /\ LocksAreHolders

Pointers == Objects \cup Heap \cup Blocks \cup {Null}

-----------------------------------------------------------------------------
(* Lemmas.                                                                 *)

LEMMA HoldersFinite ==
    \A o : IsFiniteSet(Holders(o)) /\ Cardinality(Holders(o)) \in Nat
<1> SUFFICES ASSUME NEW o
             PROVE  IsFiniteSet(Holders(o)) /\ Cardinality(Holders(o)) \in Nat
  OBVIOUS
<1>1. Holders(o) \in SUBSET Slots
  BY DEF Holders
<1> QED BY <1>1, ViewsAssumption, FS_Subset, FS_CardinalityType

\* A value that is there is in use or waits for its destruction.
LEMMA InScopeOwns ==
    ASSUME Inv, NEW s \in Slots
    PROVE  /\ InScope(s, "FunctionCFG") => views[s].ptr \in Heap /\ charts[views[s].ptr] # Null
           /\ InScope(s, "CFunction") => views[s].ptr \in Heap /\ cfuncs[views[s].ptr] = 1
           /\ Pins(s) => views[s].ptr \in Objects
           /\ Pins(s) /\ s \notin late => views[s].ptr \in tables /\ opened
<1>1. CASE views[s] # Null /\ s \notin unused
  <2>1. Sound(s)
    BY <1>1 DEF Inv, AllSound
  <2> QED BY <2>1 DEF Sound, InScope, Pins, Objects
<1>2. CASE s \in unused
  <2>1. Pending(s)
    BY <1>2 DEF Inv, AllPending
  <2> QED BY <2>1 DEF Pending, InScope, Pins, Objects
<1>3. CASE views[s] = Null
  BY <1>3 DEF InScope, Pins
<1> QED BY <1>1, <1>2, <1>3

\* What is held, or waits to be given back, is locked.
LEMMA HeldIsLocked ==
    ASSUME Inv, NEW s \in Slots, Pins(s), s \notin late
    PROVE  /\ views[s].ptr \in Objects
           /\ locks[views[s].ptr] \in Nat \ {0}
<1>1. views[s].ptr \in Objects
  BY InScopeOwns
<1>2. s \in Holders(views[s].ptr)
  BY DEF Holders
<1>3. Cardinality(Holders(views[s].ptr)) # 0
  BY <1>2, HoldersFinite, FS_EmptySet
<1> QED BY <1>1, <1>3, HoldersFinite DEF Inv, LocksAreHolders

\* A slot stays sound in a step that leaves alone the slot, what it borrows and
\* the memory it is about.
LEMMA SoundStays ==
    ASSUME NEW s \in Slots, views[s] # Null, s \notin unused, Sound(s),
           views'[s] = views[s],
           \A p \in Slots : p \in views[s].borrows /\ views[p] # Null /\ p \notin unused =>
               views'[p] = views[p] /\ p \notin unused',
           views[s].kind # "Insn" => opened' = opened /\ decompiler' = decompiler,
           Held(s, "Function") \/ Held(s, "Segment") => views[s].ptr \in tables',
           \A p \in Slots : Held(p, "FunctionCFG") /\ (p = s \/ p \in views[s].borrows) =>
               charts'[views[p].ptr] = charts[views[p].ptr],
           Held(s, "CFunction") => cfuncs'[views[s].ptr] = cfuncs[views[s].ptr]
                                     /\ (views[s].ptr \in whole => views[s].ptr \in whole')
    PROVE  Sound(s)'
<1> DEFINE v == views[s]
<1>1. /\ v.kind # "Insn" => opened'
      /\ v.kind = "Function" => v.ptr \in Funcs /\ v.ptr \in tables'
      /\ v.kind = "Segment" => v.ptr \in Segs /\ v.ptr \in tables'
      /\ v.kind = "CFunction" => v.ptr \in Heap /\ decompiler' /\ cfuncs'[v.ptr] = 1
                                 /\ v.ptr \in whole'
  BY DEF Sound, Held, InScope
<1>2. ASSUME v.kind = "FunctionCFG"
      PROVE  /\ v.ptr \in Heap
             /\ charts'[v.ptr] # Null
             /\ \E f \in Slots :
                  Borrowed(s, f, "Function")' /\ charts'[v.ptr].func = views'[f].ptr
  <2>1. charts'[v.ptr] = charts[v.ptr]
    BY <1>2 DEF Held, InScope
  <2>2. PICK f \in Slots : Borrowed(s, f, "Function") /\ charts[v.ptr].func = views[f].ptr
    BY <1>2 DEF Sound
  <2>3. Borrowed(s, f, "Function")' /\ charts'[v.ptr].func = views'[f].ptr
    BY <2>1, <2>2 DEF Borrowed, Held, InScope
  <2> QED BY <1>2, <2>1, <2>3 DEF Sound
<1>3. ASSUME v.kind = "BasicBlock"
      PROVE  \E c \in Slots, n \in Nat :
                /\ Borrowed(s, c, "FunctionCFG")'
                /\ v.ptr = <<views'[c].ptr, n>>
                /\ n < charts'[views'[c].ptr].size
  <2>1. PICK c \in Slots, n \in Nat :
          /\ Borrowed(s, c, "FunctionCFG")
          /\ v.ptr = <<views[c].ptr, n>>
          /\ n < charts[views[c].ptr].size
    BY <1>3 DEF Sound
  <2>2. views'[c] = views[c]
    BY <2>1 DEF Borrowed, Held, InScope
  <2>3. charts'[views[c].ptr] = charts[views[c].ptr]
    BY <2>1 DEF Borrowed
  <2> QED BY <2>1, <2>2, <2>3 DEF Borrowed, Held, InScope
<1>4. ASSUME v.kind = "CBlock"
      PROVE  \E c \in Slots : Borrowed(s, c, "CFunction")' /\ v.ptr = views'[c].ptr
  BY <1>4 DEF Sound, Borrowed, Held, InScope
<1>5. ASSUME v.kind \in {"CBlockIter", "CInsn"}
      PROVE  \E b \in Slots : Borrowed(s, b, "CBlock")' /\ v.ptr = views'[b].ptr
  BY <1>5 DEF Sound, Borrowed, Held, InScope
<1> QED BY <1>1, <1>2, <1>3, <1>4, <1>5 DEF Sound

LEMMA PendingStays ==
    ASSUME NEW s \in Slots, Pending(s), views'[s] = views[s],
           s \notin late' => s \notin late /\ opened' = opened /\ decompiler' = decompiler,
           Pins(s) /\ s \notin late' => views[s].ptr \in tables',
           InScope(s, "FunctionCFG") => charts'[views[s].ptr] = charts[views[s].ptr],
           InScope(s, "CFunction") => cfuncs'[views[s].ptr] = cfuncs[views[s].ptr],
           views[s] # Null
    PROVE  Pending(s)'
BY DEF Pending, Pins, InScope

\* What a new value changes for the others: nothing, if only memory that was
\* not in use is.
LEMMA PutKeeps ==
    ASSUME Inv, NEW s \in Slots, NEW kind, NEW ptr, NEW borrows,
           Put(s, kind, ptr, borrows),
           UNCHANGED <<opened, decompiler, tables, unused, late>>,
           \A h \in Heap : charts[h] # Null => charts'[h] = charts[h],
           \A h \in Heap : cfuncs[h] # 0 => cfuncs'[h] = cfuncs[h],
           whole \subseteq whole'
    PROVE  /\ \A t \in Slots : t # s => views'[t] = views[t]
           /\ \A t \in Slots : views[t] # Null /\ t \notin unused => Sound(t)'
           /\ AllPending'
           /\ s \notin unused
           /\ views'[s] = [kind |-> kind, ptr |-> ptr, borrows |-> borrows]
<1>1. /\ \A t \in Slots : t # s => views'[t] = views[t]
      /\ views'[s] = [kind |-> kind, ptr |-> ptr, borrows |-> borrows]
      /\ views[s] = Null
  BY DEF Put, Inv, TypeOK
<1>2. ASSUME NEW p \in Slots
      PROVE  /\ InScope(p, "FunctionCFG") => charts'[views[p].ptr] = charts[views[p].ptr]
             /\ InScope(p, "CFunction") => cfuncs'[views[p].ptr] = cfuncs[views[p].ptr]
  BY InScopeOwns
<1>3. ASSUME NEW t \in Slots, views[t] # Null, t \notin unused PROVE Sound(t)'
  <2>1. Sound(t)
    BY <1>3 DEF Inv, AllSound
  <2>2. \A p \in Slots : views[p] # Null => views'[p] = views[p]
    BY <1>1
  <2>3. Held(t, "Function") \/ Held(t, "Segment") => views[t].ptr \in tables'
    BY <2>1 DEF Sound, Held, InScope
  <2>4. \A p \in Slots : Held(p, "FunctionCFG") => charts'[views[p].ptr] = charts[views[p].ptr]
    BY <1>2 DEF Held
  <2>5. Held(t, "CFunction") => cfuncs'[views[t].ptr] = cfuncs[views[t].ptr]
    BY <1>2 DEF Held
  <2> QED BY <1>3, <2>1, <2>2, <2>3, <2>4, <2>5, SoundStays
<1>4. ASSUME NEW t \in unused PROVE views'[t] # Null /\ Pending(t)'
  <2>1. Pending(t) /\ views[t] # Null /\ t \in Slots
    BY DEF Inv, AllPending, TypeOK
  <2>2. views'[t] = views[t]
    BY <1>1, <2>1
  <2>3. Pins(t) /\ t \notin late => views[t].ptr \in tables
    BY <2>1, InScopeOwns
  <2> QED BY <1>2, <2>1, <2>2, <2>3, PendingStays
<1>5. s \notin unused
  BY <1>1 DEF Inv, AllPending
<1>6. AllPending'
  BY <1>4 DEF AllPending
<1> QED BY <1>1, <1>3, <1>5, <1>6

\* What a new value does to the accounts: it may own memory that nobody owned,
\* and a Function or Segment takes a lock.
LEMMA PutCounts ==
    ASSUME Inv, NEW s \in Slots, NEW kind, NEW ptr, NEW borrows,
           views[s] = Null, s \notin unused, UNCHANGED late,
           \A t \in Slots : t # s => views'[t] = views[t],
           views'[s] = [kind |-> kind, ptr |-> ptr, borrows |-> borrows],
           views'[s] # Null,
           \A t \in Slots : InScope(t, "FunctionCFG") \/ InScope(t, "CFunction") =>
               ~(InScope(t, kind) /\ views[t].ptr = ptr),
           \A h \in Heap : charts'[h] = charts[h] \/ (kind = "FunctionCFG" /\ ptr = h),
           \A h \in Heap : cfuncs'[h] = cfuncs[h] \/ (kind = "CFunction" /\ ptr = h),
           IF kind \in {"Function", "Segment"} THEN ptr \in Objects /\ Lock(ptr)
           ELSE UNCHANGED locks
    PROVE  OneOwner' /\ NoLeak' /\ LocksAreHolders'
<1>1. \A t \in Slots, k \in Kinds :
        InScope(t, k)' <=> (InScope(t, k) /\ t # s) \/ (t = s /\ kind = k)
  BY DEF InScope
<1>2. \A t \in Slots : t # s => views'[t] = views[t]
  OBVIOUS
<1>3. OneOwner'
  BY <1>1, <1>2 DEF Inv, OneOwner, Kinds, InScope
<1>4. NoLeak'
  <2>1. ASSUME NEW h \in Heap, charts'[h] # Null
        PROVE  \E t \in Slots : InScope(t, "FunctionCFG")' /\ views'[t].ptr = h
    BY <2>1 DEF Inv, NoLeak, InScope
  <2>2. ASSUME NEW h \in Heap, cfuncs'[h] # 0
        PROVE  \E t \in Slots : InScope(t, "CFunction")' /\ views'[t].ptr = h
    BY <2>2 DEF Inv, NoLeak, InScope
  <2> QED BY <2>1, <2>2 DEF NoLeak
<1>5. s \notin late
  BY DEF Inv, TypeOK
<1>6. LocksAreHolders'
  <2> SUFFICES ASSUME NEW o \in Objects PROVE locks'[o] = Cardinality(Holders(o)')
    BY DEF LocksAreHolders
  <2>1. CASE kind \in {"Function", "Segment"} /\ ptr = o
    <3>1. Holders(o)' = Holders(o) \cup {s} /\ s \notin Holders(o)
      BY <1>5, <2>1 DEF Holders, Pins, InScope
    <3>2. Cardinality(Holders(o)') = Cardinality(Holders(o)) + 1
      BY <3>1, HoldersFinite, FS_AddElement
    <3> QED BY <2>1, <3>2 DEF Inv, TypeOK, LocksAreHolders, Lock
  <2>2. CASE ~(kind \in {"Function", "Segment"} /\ ptr = o)
    <3>1. Holders(o)' = Holders(o)
      BY <2>2 DEF Holders, Pins, InScope
    <3>2. locks'[o] = locks[o]
      BY <2>2 DEF Inv, TypeOK, Lock
    <3> QED BY <3>1, <3>2 DEF Inv, LocksAreHolders
  <2> QED BY <2>1, <2>2
<1> QED BY <1>3, <1>4, <1>6

\* A new value is sound if it is built on what is sound.
LEMMA PutInv ==
    ASSUME Inv, NEW s \in Slots,
           NEW kind \in Kinds, NEW ptr \in Pointers, NEW borrows \in SUBSET Slots,
           Put(s, kind, ptr, borrows),
           UNCHANGED <<opened, decompiler, tables, unused, late, undefined>>,
           charts' \in [Heap -> Charts \cup {Null}] /\ cfuncs' \in [Heap -> Nat],
           whole \subseteq whole' /\ whole' \subseteq Heap,
           \A h \in Heap : charts[h] # Null => charts'[h] = charts[h],
           \A h \in Heap : cfuncs[h] # 0 => cfuncs'[h] = cfuncs[h],
           \A h \in Heap : charts'[h] = charts[h]
                             \/ (kind = "FunctionCFG" /\ ptr = h /\ charts[h] = Null),
           \A h \in Heap : cfuncs'[h] = cfuncs[h]
                             \/ (kind = "CFunction" /\ ptr = h /\ cfuncs[h] = 0),
           kind = "FunctionCFG" => ptr \in Heap /\ charts[ptr] = Null,
           kind = "CFunction" => ptr \in Heap /\ cfuncs[ptr] = 0,
           IF kind \in {"Function", "Segment"} THEN ptr \in Objects /\ Lock(ptr)
           ELSE UNCHANGED locks,
           Sound(s)'
    PROVE  Inv'
<1>1. /\ \A t \in Slots : t # s => views'[t] = views[t]
      /\ \A t \in Slots : views[t] # Null /\ t \notin unused => Sound(t)'
      /\ AllPending'
      /\ s \notin unused
      /\ views'[s] = [kind |-> kind, ptr |-> ptr, borrows |-> borrows]
  BY PutKeeps
<1>2. AllSound'
  BY <1>1 DEF AllSound
<1>3. views[s] = Null /\ views'[s] # Null
  <2>1. [kind |-> kind, ptr |-> ptr, borrows |-> borrows] \in View
    BY DEF View, Pointers
  <2> QED BY <1>1, <2>1, NullAssumption DEF Put
<1>4. ASSUME NEW t \in Slots, InScope(t, "FunctionCFG") \/ InScope(t, "CFunction")
      PROVE  ~(InScope(t, kind) /\ views[t].ptr = ptr)
  BY <1>4, InScopeOwns DEF InScope
<1>5. OneOwner' /\ NoLeak' /\ LocksAreHolders'
  BY <1>1, <1>3, <1>4, PutCounts
<1>6. TypeOK'
  <2>1. views' \in [Slots -> View \cup {Null}]
    <3>1. [kind |-> kind, ptr |-> ptr, borrows |-> borrows] \in View
      BY DEF View, Pointers
    <3> QED BY <3>1 DEF Put, Inv, TypeOK
  <2>2. locks' \in [Objects -> Nat]
    BY DEF Inv, TypeOK, Lock
  <2> QED BY <2>1, <2>2 DEF Inv, TypeOK
<1> QED BY <1>1, <1>2, <1>5, <1>6 DEF Inv

-----------------------------------------------------------------------------
(* One lemma per operation.                                                *)

LEMMA InitInv == Init => Inv
<1> SUFFICES ASSUME Init PROVE Inv
  OBVIOUS
<1>1. /\ \A s \in Slots : views[s] = Null
      /\ \A h \in Heap : charts[h] = Null /\ cfuncs[h] = 0
      /\ \A o \in Objects : locks[o] = 0
      /\ unused = {} /\ late = {} /\ whole = {}
  BY DEF Init
<1>2. TypeOK
  <2>1. locks \in [Objects -> Nat] /\ cfuncs \in [Heap -> Nat]
    BY DEF Init
  <2>2. charts \in [Heap -> Charts \cup {Null}]
    BY DEF Init
  <2>3. views \in [Slots -> View \cup {Null}]
    BY DEF Init
  <2> QED BY <1>1, <2>1, <2>2, <2>3 DEF Init, TypeOK
<1>3. \A o : Holders(o) = {}
  BY <1>1 DEF Holders, Pins, InScope
<1>4. LocksAreHolders
  BY <1>1, <1>3, FS_EmptySet DEF LocksAreHolders
<1>5. OneOwner /\ NoLeak
  BY <1>1 DEF OneOwner, NoLeak, InScope
<1>6. AllSound /\ AllPending
  BY <1>1 DEF AllSound, AllPending
<1> QED BY <1>2, <1>4, <1>5, <1>6 DEF Inv

\* Between sessions the values in use are copies, and the others are late.
LEMMA OpenInv == ASSUME Inv, Open PROVE Inv'
<1>1. ASSUME NEW s \in Slots, views[s] # Null, s \notin unused PROVE Sound(s)'
  <2>1. views[s].kind = "Insn"
    BY <1>1 DEF Inv, AllSound, Sound, Open
  <2> QED BY <2>1 DEF Sound, Open
<1>2. AllSound'
  BY <1>1 DEF AllSound, Open
<1>3. ASSUME NEW s \in unused PROVE views'[s] # Null /\ Pending(s)'
  <2>1. views[s] # Null /\ Pending(s) /\ s \in Slots
    BY DEF Inv, AllPending, TypeOK
  <2>2. s \in late
    BY <2>1 DEF Pending, Open
  <2>3. Pending(s)'
    BY <2>1, <2>2, PendingStays DEF Open
  <2> QED BY <2>1, <2>3 DEF Open
<1>4. AllPending'
  BY <1>3 DEF AllPending, Open
<1>5. OneOwner' /\ NoLeak'
  BY DEF Inv, Open, OneOwner, NoLeak, InScope
<1>6. LocksAreHolders'
  BY DEF Inv, Open, LocksAreHolders, Holders, Pins, InScope
<1>7. TypeOK'
  BY DEF Inv, Open, TypeOK
<1> QED BY <1>2, <1>4, <1>5, <1>6, <1>7 DEF Inv

\* A session ends: what is not late by then is a copy.
LEMMA CloseInv == ASSUME Inv, Close PROVE Inv'
<1>1. ASSUME NEW s \in Slots, views[s] # Null, s \notin unused PROVE Sound(s)'
  <2>1. views[s].kind = "Insn"
    BY <1>1 DEF Close, Unborrowed, Held, InScope
  <2> QED BY <2>1 DEF Sound, Close
<1>2. AllSound'
  BY <1>1 DEF AllSound, Close
<1>3. ASSUME NEW s \in unused PROVE views'[s] # Null /\ Pending(s)'
  <2>1. views[s] # Null /\ Pending(s) /\ s \in Slots
    BY DEF Inv, AllPending, TypeOK
  <2>2. s \in late'
    BY DEF Close
  <2>3. Pending(s)'
    BY <2>1, <2>2, PendingStays DEF Close
  <2> QED BY <2>1, <2>3 DEF Close
<1>4. AllPending'
  BY <1>3 DEF AllPending, Close
<1>5. OneOwner' /\ NoLeak'
  BY DEF Inv, Close, OneOwner, NoLeak, InScope
<1>6. LocksAreHolders'
  <2> SUFFICES ASSUME NEW o \in Objects PROVE locks'[o] = Cardinality(Holders(o)')
    BY DEF LocksAreHolders
  <2>1. Holders(o)' = {}
    <3>1. ASSUME NEW s \in Slots, Pins(s)' PROVE s \in late'
      <4>1. Pins(s) /\ views[s] # Null
        BY <3>1 DEF Pins, InScope, Close
      <4> QED BY <4>1 DEF Pins, InScope, Held, Close, Unborrowed
    <3> QED BY <3>1 DEF Holders
  <2> QED BY <2>1, FS_EmptySet DEF Close
<1>7. TypeOK'
  BY DEF Inv, Close, TypeOK
<1> QED BY <1>2, <1>4, <1>5, <1>6, <1>7 DEF Inv

\* Steps that move no value and touch no memory.
LEMMA SettledInv ==
    ASSUME Inv,
           UNCHANGED <<opened, decompiler, locks, charts, cfuncs, whole, views, unused, late>>,
           TypeOK',
           \A s \in Slots : Pins(s) /\ s \notin late => views[s].ptr \in tables'
    PROVE  Inv'
<1>1. ASSUME NEW s \in Slots, views[s] # Null, s \notin unused PROVE Sound(s)'
  <2>1. Sound(s)
    BY <1>1 DEF Inv, AllSound
  <2>2. s \notin late
    BY <1>1 DEF Inv, TypeOK
  <2>3. Held(s, "Function") \/ Held(s, "Segment") => views[s].ptr \in tables'
    BY <2>2 DEF Pins, Held
  <2> QED BY <1>1, <2>1, <2>3, SoundStays
<1>2. AllSound'
  BY <1>1 DEF AllSound
<1>3. ASSUME NEW s \in unused PROVE views'[s] # Null /\ Pending(s)'
  <2>1. views[s] # Null /\ Pending(s) /\ s \in Slots
    BY DEF Inv, AllPending, TypeOK
  <2> QED BY <2>1, PendingStays
<1>4. AllPending'
  BY <1>3 DEF AllPending
<1>5. OneOwner' /\ NoLeak'
  BY DEF Inv, OneOwner, NoLeak, InScope
<1>6. LocksAreHolders'
  BY DEF Inv, LocksAreHolders, Holders, Pins, InScope
<1> QED BY <1>2, <1>4, <1>5, <1>6 DEF Inv

\* A plugin cannot delete what is held, nor what waits to be given back.
LEMMA RunPluginInv == ASSUME Inv, RunPlugin PROVE Inv'
<1>1. \A s \in Slots : Pins(s) /\ s \notin late => views[s].ptr \in tables'
  <2> SUFFICES ASSUME NEW s \in Slots, Pins(s), s \notin late
               PROVE  views[s].ptr \in tables'
    OBVIOUS
  <2>1. views[s].ptr \in tables /\ views[s].ptr \in Objects
    BY InScopeOwns
  <2>2. locks[views[s].ptr] > 0
    BY HeldIsLocked
  <2> QED BY <2>1, <2>2 DEF RunPlugin
<1>2. TypeOK'
  BY DEF Inv, RunPlugin, TypeOK
<1> QED BY <1>1, <1>2, SettledInv DEF RunPlugin

\* A destructor that comes too late changes nothing here: it is the end.
LEMMA DropTooLateInv ==
    ASSUME Inv, NEW s \in Slots, DropTooLate(s)
    PROVE  Inv'
<1>1. \A t \in Slots : Pins(t) /\ t \notin late => views[t].ptr \in tables'
  BY InScopeOwns DEF DropTooLate
<1>2. TypeOK'
  BY DEF Inv, DropTooLate, TypeOK
<1> QED BY <1>1, <1>2, SettledInv DEF DropTooLate

LEMMA FunctionAtInv ==
    ASSUME Inv, NEW s \in Slots, NEW f \in Funcs, FunctionAt(s, f)
    PROVE  Inv'
<1>1. /\ Put(s, "Function", f, {}) /\ Lock(f) /\ f \in Objects
      /\ UNCHANGED <<opened, decompiler, tables, charts, cfuncs, whole, unused, late, undefined>>
      /\ opened /\ f \in tables
  BY DEF FunctionAt, Shared, Objects
<1>2. views'[s] = [kind |-> "Function", ptr |-> f, borrows |-> {}]
  BY <1>1 DEF Inv, TypeOK, Put
<1>3. Sound(s)'
  BY <1>1, <1>2 DEF Sound
<1>4. "Function" \in Kinds /\ f \in Pointers /\ {} \in SUBSET Slots
  BY <1>1 DEF Kinds, Pointers
<1> QED BY <1>1, <1>3, <1>4, PutInv DEF Inv, TypeOK

LEMMA SegmentAtInv ==
    ASSUME Inv, NEW s \in Slots, NEW g \in Segs, SegmentAt(s, g)
    PROVE  Inv'
<1>1. /\ Put(s, "Segment", g, {}) /\ Lock(g) /\ g \in Objects
      /\ UNCHANGED <<opened, decompiler, tables, charts, cfuncs, whole, unused, late, undefined>>
      /\ opened /\ g \in tables
  BY DEF SegmentAt, Shared, Objects
<1>2. views'[s] = [kind |-> "Segment", ptr |-> g, borrows |-> {}]
  BY <1>1 DEF Inv, TypeOK, Put
<1>3. Sound(s)'
  BY <1>1, <1>2 DEF Sound
<1>4. "Segment" \in Kinds /\ g \in Pointers /\ {} \in SUBSET Slots
  BY <1>1 DEF Kinds, Pointers
<1> QED BY <1>1, <1>3, <1>4, PutInv DEF Inv, TypeOK

LEMMA FacadeInv ==
    ASSUME Inv, NEW s \in Slots, NEW kind \in {"Facade", "Insn", "MetadataMut"}, opened,
           Put(s, kind, Null, {}),
           UNCHANGED <<opened, decompiler, tables, locks, charts, cfuncs, whole, unused, late, undefined>>
    PROVE  Inv'
<1>1. views'[s] = [kind |-> kind, ptr |-> Null, borrows |-> {}]
  BY DEF Inv, TypeOK, Put
<1>2. Sound(s)'
  BY <1>1 DEF Sound
<1>3. kind \in Kinds /\ Null \in Pointers /\ {} \in SUBSET Slots
  BY DEF Kinds, Pointers
<1>4. kind \notin {"Function", "Segment", "FunctionCFG", "CFunction"}
  OBVIOUS
<1> QED BY <1>2, <1>3, <1>4, PutInv DEF Inv, TypeOK

LEMMA CfgInv ==
    ASSUME Inv, NEW s \in Slots, NEW f \in Slots, Cfg(s, f)
    PROVE  Inv'
<1>1. PICK h \in Fresh, size \in 1 .. MaxBlocks :
        /\ Held(f, "Function")
        /\ Put(s, "FunctionCFG", h, {f})
        /\ charts' = [charts EXCEPT ![h] = [func |-> views[f].ptr, size |-> size]]
        /\ UNCHANGED <<opened, decompiler, tables, locks, cfuncs, whole, unused, late, undefined>>
  BY DEF Cfg
<1> DEFINE chart == [func |-> views[f].ptr, size |-> size]
<1>2. h \in Heap /\ charts[h] = Null
  BY DEF Fresh
<1>3. chart \in Charts /\ chart # Null /\ opened
  <2>1. views[f].ptr \in Funcs /\ opened
    BY <1>1 DEF Inv, AllSound, Sound, Held, InScope
  <2>2. size \in 0 .. MaxBlocks
    BY ViewsAssumption
  <2> QED BY <2>1, <2>2, NullAssumption DEF Charts
<1>4. charts'[h] = chart /\ charts' \in [Heap -> Charts \cup {Null}]
  BY <1>1, <1>2, <1>3 DEF Inv, TypeOK
<1>5. /\ views'[s] = [kind |-> "FunctionCFG", ptr |-> h, borrows |-> {f}]
      /\ views'[f] = views[f]
  BY <1>1 DEF Inv, TypeOK, Put, Held, InScope
<1>6. Sound(s)'
  <2>1. Borrowed(s, f, "Function")' /\ charts'[h].func = views'[f].ptr
    BY <1>1, <1>4, <1>5 DEF Borrowed, Held, InScope
  <2> QED BY <1>1, <1>2, <1>3, <1>4, <1>5, <2>1 DEF Sound
<1>7. "FunctionCFG" \in Kinds /\ h \in Pointers /\ {f} \in SUBSET Slots
  BY <1>2 DEF Kinds, Pointers
<1>8. \A g \in Heap : charts'[g] = charts[g] \/ g = h
  BY <1>1 DEF Inv, TypeOK
<1> QED BY <1>1, <1>2, <1>4, <1>6, <1>7, <1>8, PutInv DEF Inv, TypeOK

\* A block looked up in a flow chart.
LEMMA BlockInv ==
    ASSUME Inv, NEW s \in Slots, NEW c \in Slots, NEW n \in Nat,
           NEW borrows \in SUBSET Slots, c \in borrows,
           Held(c, "FunctionCFG"),
           GetNBlock(views[c].ptr, n) # Null,
           Put(s, "BasicBlock", GetNBlock(views[c].ptr, n), borrows),
           UNCHANGED <<opened, decompiler, tables, locks, charts, cfuncs, whole, unused, late, undefined>>
    PROVE  Inv'
<1> DEFINE h == views[c].ptr
<1>1. /\ GetNBlock(h, n) = <<h, n>>
      /\ n < charts[h].size
  BY DEF GetNBlock
<1>2. opened /\ h \in Heap /\ charts[h] \in Charts
  BY DEF Inv, TypeOK, AllSound, Sound, Held, InScope
<1>3. n \in 0 .. MaxBlocks
  BY <1>1, <1>2, ViewsAssumption DEF Charts
<1>4. /\ views'[s] = [kind |-> "BasicBlock", ptr |-> <<h, n>>, borrows |-> borrows]
      /\ views'[c] = views[c]
  BY <1>1 DEF Inv, TypeOK, Put, Held, InScope
<1>5. Sound(s)'
  <2>1. /\ Borrowed(s, c, "FunctionCFG")'
        /\ views'[s].ptr = <<views'[c].ptr, n>>
        /\ n < charts'[views'[c].ptr].size
    BY <1>1, <1>4 DEF Borrowed, Held, InScope
  <2> QED BY <1>2, <1>4, <2>1 DEF Sound
<1>6. "BasicBlock" \in Kinds /\ <<h, n>> \in Pointers
  BY <1>2, <1>3 DEF Kinds, Pointers, Blocks
<1>7. Put(s, "BasicBlock", <<h, n>>, borrows)
  BY <1>1
<1> QED BY <1>5, <1>6, <1>7, PutInv DEF Inv, TypeOK

LEMMA NeighbourInv ==
    ASSUME Inv, NEW s \in Slots, NEW b \in Slots, NEW c \in Slots,
           NEW id \in 0 .. MaxBlocks, Neighbour(s, b, c, id)
    PROVE  Inv'
<1>1. views[b].borrows \cup {c} \in SUBSET Slots
  BY DEF Neighbour, Held, InScope, Inv, TypeOK, View
<1>2. c \in views[b].borrows \cup {c} /\ id \in Nat
  BY ViewsAssumption
<1> QED BY <1>1, <1>2, BlockInv DEF Neighbour

\* Of a call that fails no reference is left; of one that succeeds there is one.
LEMMA CallCounts ==
    ASSUME Inv, NEW h \in Fresh, NEW outcome \in Outcomes, DecompileFunc(h, outcome)
    PROVE  /\ h \in Heap /\ cfuncs[h] = 0
           /\ cfuncs' \in [Heap -> Nat]
           /\ \A g \in Heap : cfuncs'[g] = cfuncs[g] \/ g = h
           /\ whole \subseteq whole' /\ whole' \subseteq Heap
           /\ Succeeds(outcome) => cfuncs'[h] = 1 /\ h \in whole'
           /\ ~Succeeds(outcome) => UNCHANGED <<cfuncs, whole>>
<1>1. h \in Heap /\ cfuncs[h] = 0
  BY DEF Fresh
<1>2. /\ Made(outcome) \in {0, 1} /\ Copied(outcome) \in {0, 1}
      /\ LocalDropped(outcome) = Made(outcome)
      /\ Succeeds(outcome) => Copied(outcome) = 1 /\ CopyDropped(outcome) = 0
      /\ ~Succeeds(outcome) => CopyDropped(outcome) = Copied(outcome)
  BY DEF Made, Copied, LocalDropped, CopyDropped, Succeeds
<1> DEFINE count == Made(outcome) + Copied(outcome) - LocalDropped(outcome) - CopyDropped(outcome)
<1>3. count = IF Succeeds(outcome) THEN 1 ELSE 0
  BY <1>2
<1>4. cfuncs' = [cfuncs EXCEPT ![h] = count]
  BY DEF DecompileFunc
<1> HIDE DEF count
<1>5. cfuncs'[h] = count
  BY <1>1, <1>4 DEF Inv, TypeOK
<1>6. CASE Succeeds(outcome)
  <2>1. outcome.code >= 0
    BY <1>6 DEF Succeeds, Handed
  <2>2. whole' = whole \cup {h}
    BY <1>3, <1>5, <1>6, <2>1 DEF DecompileFunc
  <2> QED BY <1>1, <1>3, <1>4, <1>5, <1>6, <2>2 DEF Inv, TypeOK
<1>7. CASE ~Succeeds(outcome)
  <2>1. cfuncs' = cfuncs
    BY <1>1, <1>3, <1>4, <1>7 DEF Inv, TypeOK
  <2>2. whole' = whole
    BY <1>3, <1>5, <1>7 DEF DecompileFunc
  <2> QED BY <1>1, <1>7, <2>1, <2>2 DEF Inv, TypeOK
<1> QED BY <1>6, <1>7

\* Only what was decompiled successfully becomes a CFunction, counted once.
LEMMA DecompileInv ==
    ASSUME Inv, NEW s \in Slots, NEW f \in Slots, Decompile(s, f)
    PROVE  Inv'
<1>1. PICK h \in Fresh, outcome \in Outcomes :
        /\ Shared /\ decompiler
        /\ \/ Succeeds(outcome) /\ Put(s, "CFunction", h, {})
           \/ ~Succeeds(outcome) /\ UNCHANGED views
        /\ DecompileFunc(h, outcome)
        /\ UNCHANGED <<opened, decompiler, tables, locks, charts, unused, late, undefined>>
  BY DEF Decompile
<1>2. /\ h \in Heap /\ cfuncs[h] = 0
      /\ cfuncs' \in [Heap -> Nat]
      /\ \A g \in Heap : cfuncs'[g] = cfuncs[g] \/ g = h
      /\ whole \subseteq whole' /\ whole' \subseteq Heap
      /\ Succeeds(outcome) => cfuncs'[h] = 1 /\ h \in whole'
      /\ ~Succeeds(outcome) => UNCHANGED <<cfuncs, whole>>
  BY <1>1, CallCounts
<1>3. CASE Succeeds(outcome)
  <2>1. Put(s, "CFunction", h, {})
    BY <1>1, <1>3
  <2>2. views'[s] = [kind |-> "CFunction", ptr |-> h, borrows |-> {}]
    BY <2>1 DEF Inv, TypeOK, Put
  <2>3. Sound(s)'
    BY <1>1, <1>2, <1>3, <2>2 DEF Sound, Shared
  <2>4. "CFunction" \in Kinds /\ h \in Pointers /\ {} \in SUBSET Slots
    BY <1>2 DEF Kinds, Pointers
  <2> QED BY <1>1, <1>2, <2>1, <2>3, <2>4, PutInv DEF Inv, TypeOK
<1>4. CASE ~Succeeds(outcome)
  <2>1. UNCHANGED vars
    BY <1>1, <1>2, <1>4 DEF vars
  <2>2. TypeOK'
    BY <2>1 DEF Inv, TypeOK, vars
  <2>3. \A t \in Slots : Pins(t) /\ t \notin late => views[t].ptr \in tables'
    BY <2>1, InScopeOwns DEF vars
  <2> QED BY <2>1, <2>2, <2>3, SettledInv DEF vars
<1> QED BY <1>3, <1>4

\* A part of a decompiled function, by way of the value in slot p.
LEMMA PartInv ==
    ASSUME Inv, NEW s \in Slots, NEW v \in Slots, NEW p \in Slots,
           NEW kind \in {"CBlock", "CBlockIter", "CInsn"}, NEW of,
           NEW borrows \in SUBSET Slots, p \in borrows,
           Part(kind, of, s, v, borrows), of # "Insn",
           Held(p, IF kind = "CBlock" THEN "CFunction" ELSE "CBlock"),
           views[v].ptr = views[p].ptr
    PROVE  Inv'
<1> DEFINE ptr == views[v].ptr
<1>1. /\ Held(v, of)
      /\ Put(s, kind, ptr, borrows)
      /\ UNCHANGED <<opened, decompiler, tables, locks, charts, cfuncs, whole, unused, late, undefined>>
  BY DEF Part
<1>2. /\ views'[s] = [kind |-> kind, ptr |-> ptr, borrows |-> borrows]
      /\ views'[p] = views[p]
  BY <1>1 DEF Inv, TypeOK, Put, Held, InScope
<1>3. opened /\ ptr \in Pointers
  <2>1. Sound(v) /\ views[v] \in View
    BY <1>1 DEF Inv, AllSound, TypeOK, Held, InScope
  <2> QED BY <1>1, <2>1 DEF Sound, Held, InScope, View, Pointers
<1>4. Sound(s)'
  <2>1. CASE kind = "CBlock"
    <3>1. Borrowed(s, p, "CFunction")' /\ views'[s].ptr = views'[p].ptr
      BY <1>1, <1>2, <2>1 DEF Borrowed, Held, InScope
    <3> QED BY <1>1, <1>2, <1>3, <2>1, <3>1 DEF Sound
  <2>2. CASE kind \in {"CBlockIter", "CInsn"}
    <3>1. Borrowed(s, p, "CBlock")' /\ views'[s].ptr = views'[p].ptr
      BY <1>1, <1>2, <2>2 DEF Borrowed, Held, InScope
    <3> QED BY <1>1, <1>2, <1>3, <2>2, <3>1 DEF Sound
  <2> QED BY <2>1, <2>2
<1>5. kind \in Kinds /\ kind \notin {"Function", "Segment", "FunctionCFG", "CFunction"}
  BY DEF Kinds
<1> QED BY <1>1, <1>3, <1>4, <1>5, PutInv DEF Inv, TypeOK

LEMMA BodyInv ==
    ASSUME Inv, NEW s \in Slots, NEW c \in Slots, Body(s, c)
    PROVE  Inv'
<1>1. Part("CBlock", "CFunction", s, c, {c}) /\ Held(c, "CFunction")
  BY DEF Body, Part
<1>2. {c} \in SUBSET Slots /\ c \in {c}
  OBVIOUS
<1> QED BY <1>1, <1>2, PartInv

LEMMA CBlockIterInv ==
    ASSUME Inv, NEW s \in Slots, NEW b \in Slots, CBlockIter(s, b)
    PROVE  Inv'
<1>1. Part("CBlockIter", "CBlock", s, b, {b}) /\ Held(b, "CBlock")
  BY DEF CBlockIter, Part
<1>2. {b} \in SUBSET Slots /\ b \in {b}
  OBVIOUS
<1> QED BY <1>1, <1>2, PartInv

\* An instruction borrows the block its iterator borrows.
LEMMA CInsnInv ==
    ASSUME Inv, NEW s \in Slots, NEW i \in Slots, CInsn(s, i)
    PROVE  Inv'
<1>1. Part("CInsn", "CBlockIter", s, i, views[i].borrows) /\ Held(i, "CBlockIter")
  BY DEF CInsn
<1>2. views[i].borrows \in SUBSET Slots
  BY <1>1 DEF Inv, TypeOK, View, Held, InScope
<1>3. PICK b \in Slots : Borrowed(i, b, "CBlock") /\ views[i].ptr = views[b].ptr
  BY <1>1 DEF Inv, AllSound, Sound, Held, InScope
<1> QED BY <1>1, <1>2, <1>3, PartInv DEF Borrowed

\* A value that has been used for the last time is borrowed by none in use.
LEMMA DisuseInv ==
    ASSUME Inv, NEW s \in Slots, Disuse(s)
    PROVE  Inv'
<1>1. /\ views[s] # Null /\ s \notin unused /\ views[s].kind \in Destructible
      /\ unused' = unused \cup {s}
      /\ UNCHANGED <<opened, decompiler, tables, locks, charts, cfuncs, whole, views, late, undefined>>
  BY DEF Disuse, Droppable
<1>2. ASSUME NEW t \in Slots, views[t] # Null, t \notin unused, t # s PROVE Sound(t)'
  <2>1. Sound(t) /\ s \notin views[t].borrows
    BY <1>2 DEF Inv, AllSound, Disuse, Droppable
  <2>2. \A p \in Slots : p \in views[t].borrows /\ p \notin unused => p \notin unused'
    BY <1>1, <2>1
  <2>3. Held(t, "Function") \/ Held(t, "Segment") => views[t].ptr \in tables'
    BY <1>1, <2>1 DEF Sound, Held, InScope
  <2> QED BY <1>1, <1>2, <2>1, <2>2, <2>3, SoundStays
<1>3. AllSound'
  BY <1>1, <1>2 DEF AllSound
<1>4. ASSUME NEW t \in unused PROVE views'[t] # Null /\ Pending(t)'
  <2>1. views[t] # Null /\ Pending(t) /\ t \in Slots
    BY DEF Inv, AllPending, TypeOK
  <2>2. Pins(t) /\ t \notin late => views[t].ptr \in tables'
    BY <1>1, <2>1, InScopeOwns
  <2> QED BY <1>1, <2>1, <2>2, PendingStays
<1>5. Pending(s)'
  <2>1. Sound(s) /\ s \notin late
    BY <1>1 DEF Inv, AllSound, TypeOK
  <2> QED BY <1>1, <2>1 DEF Sound, Pending, Destructible
<1>6. AllPending'
  BY <1>1, <1>4, <1>5 DEF AllPending
<1>7. OneOwner' /\ NoLeak'
  BY <1>1 DEF Inv, OneOwner, NoLeak, InScope
<1>8. LocksAreHolders'
  BY <1>1 DEF Inv, LocksAreHolders, Holders, Pins, InScope
<1>9. TypeOK'
  BY <1>1 DEF Inv, TypeOK
<1> QED BY <1>3, <1>6, <1>7, <1>8, <1>9 DEF Inv

\* What is dropped was not borrowed, and the memory it owned was its alone.
LEMMA DropInv ==
    ASSUME Inv, NEW s \in Slots, Drop(s)
    PROVE  Inv'
<1> DEFINE v == views[s]
<1>1. /\ v # Null
      /\ \A t \in Slots : views[t] # Null /\ t \notin unused => s \notin views[t].borrows
      /\ views' = [views EXCEPT ![s] = Null]
      /\ unused' = unused \ {s} /\ late' = late \ {s}
      /\ locks' = IF v.kind \in {"Function", "Segment"}
                  THEN [locks EXCEPT ![v.ptr] = @ - 1] ELSE locks
      /\ charts' = IF v.kind = "FunctionCFG" THEN [charts EXCEPT ![v.ptr] = Null] ELSE charts
      /\ cfuncs' = IF v.kind = "CFunction" THEN [cfuncs EXCEPT ![v.ptr] = @ - 1] ELSE cfuncs
      /\ whole' = IF v.kind = "CFunction" THEN whole \ {v.ptr} ELSE whole
      /\ UNCHANGED <<opened, decompiler, tables, undefined>>
      /\ v.kind \in {"Function", "Segment"} => s \notin late
  BY DEF Drop, Droppable, TooLate
<1>2. /\ v.kind = "FunctionCFG" => v.ptr \in Heap
      /\ v.kind = "CFunction" => v.ptr \in Heap /\ cfuncs[v.ptr] = 1
  BY <1>1, InScopeOwns DEF InScope
<1>3. /\ views'[s] = Null
      /\ \A t \in Slots : t # s => views'[t] = views[t]
  BY <1>1 DEF Inv, TypeOK
<1>4. ASSUME NEW t \in Slots, t # s, InScope(t, "FunctionCFG")
      PROVE  charts'[views[t].ptr] = charts[views[t].ptr]
  <2>1. v.kind = "FunctionCFG" => views[t].ptr # v.ptr
    BY <1>1, <1>4 DEF Inv, OneOwner, InScope
  <2> QED BY <1>1, <2>1 DEF Inv, TypeOK
<1>5. ASSUME NEW t \in Slots, t # s, InScope(t, "CFunction")
      PROVE  /\ cfuncs'[views[t].ptr] = cfuncs[views[t].ptr]
             /\ views[t].ptr \in whole => views[t].ptr \in whole'
  <2>1. v.kind = "CFunction" => views[t].ptr # v.ptr
    BY <1>1, <1>5 DEF Inv, OneOwner, InScope
  <2> QED BY <1>1, <2>1 DEF Inv, TypeOK
<1>6. ASSUME NEW t \in Slots, t # s, views[t] # Null, t \notin unused PROVE Sound(t)'
  <2>1. Sound(t) /\ s \notin views[t].borrows
    BY <1>1, <1>6 DEF Inv, AllSound
  <2>2. Held(t, "Function") \/ Held(t, "Segment") => views[t].ptr \in tables'
    BY <1>1, <2>1 DEF Sound, Held, InScope
  <2>3. \A p \in Slots : p \in views[t].borrows /\ p \notin unused =>
          views'[p] = views[p] /\ p # s /\ p \notin unused'
    BY <1>1, <1>3, <2>1
  <2>4. ASSUME NEW p \in Slots, Held(p, "FunctionCFG"), p = t \/ p \in views[t].borrows
        PROVE  charts'[views[p].ptr] = charts[views[p].ptr]
    <3>1. p # s
      BY <1>6, <2>1, <2>4
    <3> QED BY <1>4, <2>4, <3>1 DEF Held
  <2>5. Held(t, "CFunction") => cfuncs'[views[t].ptr] = cfuncs[views[t].ptr]
                                  /\ (views[t].ptr \in whole => views[t].ptr \in whole')
    BY <1>5, <1>6 DEF Held
  <2>6. views'[t] = views[t] /\ opened' = opened /\ decompiler' = decompiler
    BY <1>1, <1>3, <1>6
  <2> QED BY <1>6, <2>1, <2>2, <2>3, <2>4, <2>5, <2>6, SoundStays
<1>7. AllSound'
  BY <1>1, <1>3, <1>6 DEF AllSound
<1>8. ASSUME NEW t \in unused, t # s PROVE views'[t] # Null /\ Pending(t)'
  <2>1. views[t] # Null /\ Pending(t) /\ t \in Slots
    BY DEF Inv, AllPending, TypeOK
  <2>2. Pins(t) /\ t \notin late => views[t].ptr \in tables'
    BY <1>1, <2>1, InScopeOwns
  <2>3. views'[t] = views[t] /\ (t \notin late' => t \notin late)
    BY <1>1, <1>3, <1>8, <2>1
  <2>4. Pins(t) /\ t \notin late' => views[t].ptr \in tables'
    BY <2>2, <2>3
  <2> QED BY <1>1, <1>4, <1>5, <1>8, <2>1, <2>3, <2>4, PendingStays
<1>9. AllPending'
  BY <1>1, <1>8 DEF AllPending
<1>10. OneOwner'
  BY <1>3 DEF Inv, OneOwner, InScope
<1>11. NoLeak'
  <2>1. ASSUME NEW h \in Heap, charts'[h] # Null
        PROVE  \E t \in Slots : InScope(t, "FunctionCFG")' /\ views'[t].ptr = h
    <3>1. charts[h] # Null /\ ~(v.kind = "FunctionCFG" /\ v.ptr = h)
      BY <1>1, <2>1 DEF Inv, TypeOK
    <3> QED BY <1>3, <3>1 DEF Inv, NoLeak, InScope
  <2>2. ASSUME NEW h \in Heap, cfuncs'[h] # 0
        PROVE  \E t \in Slots : InScope(t, "CFunction")' /\ views'[t].ptr = h
    <3>1. cfuncs[h] # 0 /\ ~(v.kind = "CFunction" /\ v.ptr = h)
      BY <1>1, <1>2, <2>2 DEF Inv, TypeOK
    <3> QED BY <1>3, <3>1 DEF Inv, NoLeak, InScope
  <2> QED BY <2>1, <2>2 DEF NoLeak
<1>12. LocksAreHolders'
  <2> SUFFICES ASSUME NEW o \in Objects PROVE locks'[o] = Cardinality(Holders(o)')
    BY DEF LocksAreHolders
  <2>1. CASE v.kind \in {"Function", "Segment"} /\ v.ptr = o
    <3>1. Holders(o)' = Holders(o) \ {s} /\ s \in Holders(o)
      BY <1>1, <1>3, <2>1 DEF Holders, Pins, InScope
    <3>2. Cardinality(Holders(o)') = Cardinality(Holders(o)) - 1
      BY <3>1, HoldersFinite, FS_RemoveElement
    <3> QED BY <1>1, <2>1, <3>2 DEF Inv, TypeOK, LocksAreHolders
  <2>2. CASE ~(v.kind \in {"Function", "Segment"} /\ v.ptr = o)
    <3>1. Holders(o)' = Holders(o)
      BY <1>1, <1>3, <2>2 DEF Holders, Pins, InScope
    <3>2. locks'[o] = locks[o]
      BY <1>1, <2>2 DEF Inv, TypeOK
    <3> QED BY <3>1, <3>2 DEF Inv, LocksAreHolders
  <2> QED BY <2>1, <2>2
<1>13. TypeOK'
  <2>1. views' \in [Slots -> View \cup {Null}]
    BY <1>1 DEF Inv, TypeOK
  <2>2. locks' \in [Objects -> Nat]
    <3>1. CASE v.kind \in {"Function", "Segment"}
      <4>1. Pins(s) /\ s \notin late
        BY <1>1, <3>1 DEF Pins, InScope
      <4>2. v.ptr \in Objects /\ locks[v.ptr] \in Nat \ {0}
        BY <4>1, HeldIsLocked
      <4>3. locks' = [locks EXCEPT ![v.ptr] = locks[v.ptr] - 1]
        BY <1>1, <3>1
      <4> QED BY <4>2, <4>3 DEF Inv, TypeOK
    <3>2. CASE v.kind \notin {"Function", "Segment"}
      BY <1>1, <3>2 DEF Inv, TypeOK
    <3> QED BY <3>1, <3>2
  <2>3. charts' \in [Heap -> Charts \cup {Null}]
    BY <1>1 DEF Inv, TypeOK
  <2>4. cfuncs' \in [Heap -> Nat]
    BY <1>1, <1>2 DEF Inv, TypeOK
  <2>5. whole' \subseteq Heap /\ unused' \subseteq Slots /\ late' \subseteq unused'
    BY <1>1 DEF Inv, TypeOK
  <2> QED BY <1>1, <2>1, <2>2, <2>3, <2>4, <2>5 DEF Inv, TypeOK
<1> QED BY <1>7, <1>9, <1>10, <1>11, <1>12, <1>13 DEF Inv

LEMMA NextInv == Inv /\ [Next]_vars => Inv'
<1> SUFFICES ASSUME Inv, [Next]_vars PROVE Inv'
  OBVIOUS
<1>1. CASE UNCHANGED vars
  <2>1. TypeOK'
    BY <1>1 DEF Inv, TypeOK, vars
  <2>2. \A t \in Slots : Pins(t) /\ t \notin late => views[t].ptr \in tables'
    BY <1>1, InScopeOwns DEF vars
  <2> QED BY <1>1, <2>1, <2>2, SettledInv DEF vars
<1>2. ASSUME NEW s \in Slots, Facade(s) \/ InsnAt(s) \/ MetaMut(s) PROVE Inv'
  <2>1. CASE Facade(s)
    BY <2>1, FacadeInv DEF Facade, Shared
  <2>2. CASE InsnAt(s)
    BY <2>2, FacadeInv DEF InsnAt, Shared
  <2>3. CASE MetaMut(s)
    BY <2>3, FacadeInv DEF MetaMut, Unborrowed
  <2> QED BY <1>2, <2>1, <2>2, <2>3
<1>3. ASSUME NEW s \in Slots, NEW v \in Slots, NEW n \in 0 .. MaxBlocks, BlockById(s, v, n)
      PROVE  Inv'
  <2>1. {v} \in SUBSET Slots /\ v \in {v} /\ n \in Nat
    BY ViewsAssumption
  <2> QED BY <1>3, <2>1, BlockInv DEF BlockById
<1> QED
  BY <1>1, <1>2, <1>3, OpenInv, CloseInv, RunPluginInv, FunctionAtInv, SegmentAtInv,
     DisuseInv, DropInv, DropTooLateInv, CfgInv, DecompileInv, BodyInv, CBlockIterInv,
     CInsnInv, NeighbourInv
     DEF Next, Step

THEOREM Invariance == Spec => []Inv
<1> QED BY InitInv, NextInv, PTL DEF Spec

-----------------------------------------------------------------------------
(* Theorems.                                                               *)

\* Every variable stays in its type; in particular no lock and no reference
\* count falls below zero.
THEOREM TypeCorrect == Spec => []TypeOK
<1>1. Inv => TypeOK
  BY DEF Inv
<1> QED BY <1>1, Invariance, PTL

\* Whatever the program uses, in whatever order it got it and dropped the rest,
\* points to what is still there, and so does what it left to be destroyed before
\* the session ends.
THEOREM LifetimesSuffice == Spec => []NothingDangles
<1>1. ASSUME Inv, NEW s \in Slots, views[s] # Null, s \notin unused PROVE Live(views[s])
  <2> DEFINE v == views[s]
  <2>1. Sound(s) /\ v.kind \in Kinds
    BY <1>1 DEF Inv, AllSound, TypeOK, View
  <2>2. ASSUME NEW c \in Slots, Held(c, "CFunction")
        PROVE  decompiler /\ cfuncs[views[c].ptr] = 1 /\ views[c].ptr \in whole
    BY <1>1, <2>2 DEF Inv, AllSound, Sound, Held, InScope
  <2>3. CASE v.kind \in {"Function", "Segment"}
    BY <2>1, <2>3 DEF Sound, Live, FunctionIsLive, SegmentIsLive
  <2>4. CASE v.kind = "FunctionCFG"
    <3>1. PICK f \in Slots :
            Borrowed(s, f, "Function") /\ charts[v.ptr].func = views[f].ptr
      BY <2>1, <2>4 DEF Sound
    <3>2. views[f].ptr \in tables
      BY <1>1, <3>1 DEF Inv, AllSound, Sound, Borrowed, Held, InScope
    <3> QED BY <2>1, <2>4, <3>1, <3>2 DEF Sound, Live, CfgIsLive
  <2>5. CASE v.kind = "BasicBlock"
    <3>1. PICK c \in Slots, n \in Nat :
            /\ Borrowed(s, c, "FunctionCFG")
            /\ v.ptr = <<views[c].ptr, n>>
            /\ n < charts[views[c].ptr].size
      BY <2>1, <2>5 DEF Sound
    <3>2. charts[views[c].ptr] # Null
      BY <1>1, <3>1 DEF Inv, AllSound, Sound, Borrowed, Held, InScope
    <3> QED BY <2>5, <3>1, <3>2 DEF Live, BlockIsLive
  <2>6. CASE v.kind = "CFunction"
    BY <2>1, <2>6 DEF Sound, Live, CFunctionIsLive
  <2>7. CASE v.kind = "CBlock"
    <3>1. PICK c \in Slots : Borrowed(s, c, "CFunction") /\ v.ptr = views[c].ptr
      BY <2>1, <2>7 DEF Sound
    <3>2. CFunctionIsLive(v)
      BY <2>2, <3>1 DEF Borrowed, CFunctionIsLive
    <3> QED BY <2>7, <3>2 DEF Live
  <2>8. CASE v.kind \in {"CBlockIter", "CInsn"}
    <3>1. PICK b \in Slots : Borrowed(s, b, "CBlock") /\ v.ptr = views[b].ptr
      BY <2>1, <2>8 DEF Sound
    <3>2. PICK c \in Slots : Borrowed(b, c, "CFunction") /\ views[b].ptr = views[c].ptr
      BY <1>1, <3>1 DEF Inv, AllSound, Sound, Borrowed, Held, InScope
    <3>3. CFunctionIsLive(v)
      BY <2>2, <3>1, <3>2 DEF Borrowed, CFunctionIsLive
    <3> QED BY <2>8, <3>3 DEF Live
  <2>9. CASE v.kind \in {"Facade", "MetadataMut", "Insn"}
    BY <2>1, <2>9 DEF Sound, Live, FacadeIsLive, InsnIsLive
  <2> QED BY <2>1, <2>3, <2>4, <2>5, <2>6, <2>7, <2>8, <2>9 DEF Kinds
<1>2. ASSUME Inv, NEW s \in unused, s \notin late PROVE Destroyable(views[s])
  <2> DEFINE v == views[s]
  <2>1. Pending(s) /\ s \in Slots /\ v # Null
    BY <1>2 DEF Inv, AllPending, TypeOK
  <2>2. CASE v.kind \in {"Function", "Segment"}
    <3>1. locks[v.ptr] \in Nat \ {0}
      BY <1>2, <2>1, <2>2, HeldIsLocked DEF Pins, InScope
    <3>2. locks[v.ptr] > 0
      BY <3>1
    <3> QED BY <1>2, <2>1, <2>2, <3>2 DEF Pending, Destroyable
  <2>3. CASE v.kind = "FunctionCFG"
    BY <2>1, <2>3 DEF Pending, Destroyable
  <2>4. CASE v.kind = "CFunction"
    BY <1>2, <2>1, <2>4 DEF Pending, Destroyable
  <2> QED BY <2>1, <2>2, <2>3, <2>4 DEF Pending, Destructible
<1>3. Inv => NothingDangles
  BY <1>1, <1>2 DEF NothingDangles
<1> QED BY <1>3, Invariance, PTL

\* However a session ends and whatever failed in it, no lock, flow chart or
\* decompiled function is left that no value in scope owns.
THEOREM SessionsCleanUp == Spec => NothingLeftAtClose
<1>1. ASSUME Inv, [Next]_vars, opened, ~opened'
      PROVE  /\ \A o \in Objects :
                  locks[o] = Cardinality({s \in unused \ late :
                                 views[s].kind \in {"Function", "Segment"} /\ views[s].ptr = o})
             /\ \A h \in Heap \ Fresh : \E s \in unused : views[s].ptr = h
  <2>1. Close
    <3>1. ASSUME NEW s \in Slots, NEW v \in Slots,
                 Cfg(s, v) \/ Decompile(s, v) \/ Body(s, v) \/ CBlockIter(s, v) \/ CInsn(s, v)
          PROVE  UNCHANGED opened
      BY <3>1 DEF Cfg, Decompile, Body, CBlockIter, CInsn, Part
    <3>2. ASSUME NEW s \in Slots, NEW v \in Slots, NEW n \in 0 .. MaxBlocks,
                 BlockById(s, v, n) \/ \E c \in Slots : Neighbour(s, v, c, n)
          PROVE  UNCHANGED opened
      BY <3>2 DEF BlockById, Neighbour
    <3>3. ASSUME NEW s \in Slots,
                 \/ Facade(s) \/ InsnAt(s) \/ MetaMut(s)
                 \/ Disuse(s) \/ Drop(s) \/ DropTooLate(s)
          PROVE  UNCHANGED opened
      BY <3>3 DEF Facade, InsnAt, MetaMut, Disuse, Drop, DropTooLate
    <3>4. ASSUME NEW s \in Slots, NEW x, FunctionAt(s, x) \/ SegmentAt(s, x)
          PROVE  UNCHANGED opened
      BY <3>4 DEF FunctionAt, SegmentAt
    <3>5. CASE Open \/ RunPlugin \/ UNCHANGED vars
      BY <1>1, <3>5 DEF Open, RunPlugin, vars
    <3> QED BY <1>1, <3>1, <3>2, <3>3, <3>4, <3>5 DEF Next, Step
  <2>2. ASSUME NEW s \in Slots, NEW kind \in Kinds \ {"Insn"}, InScope(s, kind)
        PROVE  s \in unused
    BY <2>1, <2>2 DEF Close, Unborrowed, InScope, Held
  <2>3. ASSUME NEW o \in Objects
        PROVE  locks[o] = Cardinality({s \in unused \ late :
                              views[s].kind \in {"Function", "Segment"} /\ views[s].ptr = o})
    <3> DEFINE left == {s \in unused \ late :
                           views[s].kind \in {"Function", "Segment"} /\ views[s].ptr = o}
    <3>1. Holders(o) \subseteq left
      BY <2>2 DEF Holders, Pins, InScope, Kinds
    <3>2. left \subseteq Holders(o)
      BY <1>1 DEF Holders, Pins, InScope, Inv, AllPending, TypeOK
    <3>3. left = Holders(o)
      BY <3>1, <3>2
    <3> QED BY <1>1, <3>3 DEF Inv, LocksAreHolders
  <2>4. ASSUME NEW h \in Heap \ Fresh PROVE \E s \in unused : views[s].ptr = h
    <3>1. charts[h] # Null \/ cfuncs[h] # 0
      BY DEF Fresh
    <3>2. PICK s \in Slots : /\ InScope(s, "FunctionCFG") \/ InScope(s, "CFunction")
                             /\ views[s].ptr = h
      BY <1>1, <3>1 DEF Inv, NoLeak
    <3> QED BY <2>2, <3>2 DEF Kinds
  <2> QED BY <2>3, <2>4
<1>2. Inv /\ [Next]_vars =>
        [opened /\ ~opened' =>
           /\ \A o \in Objects :
                locks[o] = Cardinality({s \in unused \ late :
                               views[s].kind \in {"Function", "Segment"} /\ views[s].ptr = o})
           /\ \A h \in Heap \ Fresh : \E s \in unused : views[s].ptr = h]_vars
  BY <1>1
<1> QED BY <1>2, Invariance, PTL DEF Spec, NothingLeftAtClose

\* What a slot holds changes with the slot only.
LEMMA LockedUnchanged ==
    ASSUME NEW s \in Slots, views'[s] = views[s], s \in unused' <=> s \in unused
    PROVE  LockedObject(s)' = LockedObject(s)
BY DEF LockedObject, Held, InScope

\* Values of other kinds come unnoticed, ...
LEMMA OtherComes ==
    ASSUME TypeOK, NEW s \in Slots, NEW kind, kind \notin {"Function", "Segment"},
           NEW ptr, NEW borrows, Put(s, kind, ptr, borrows), UNCHANGED unused
    PROVE  \A t \in Slots : LockedObject(t)' = LockedObject(t)
<1>1. /\ views[s] = Null
      /\ views'[s] = [kind |-> kind, ptr |-> ptr, borrows |-> borrows]
      /\ \A t \in Slots : t # s => views'[t] = views[t]
  BY DEF Put, TypeOK
<1>2. LockedObject(s) = Null /\ LockedObject(s)' = Null
  BY <1>1 DEF LockedObject, Held, InScope
<1> QED BY <1>1, <1>2, LockedUnchanged

\* ... and a Function or a Segment comes with its pointer.
LEMMA LockedComes ==
    ASSUME TypeOK, NEW s \in Slots, NEW kind \in {"Function", "Segment"},
           NEW o \in Objects, Put(s, kind, o, {}),
           UNCHANGED unused, s \notin unused
    PROVE  /\ LockedObject(s) = Null /\ LockedObject(s)' = o
           /\ \A t \in Slots : t # s => LockedObject(t)' = LockedObject(t)
<1>1. /\ views[s] = Null
      /\ views'[s] = [kind |-> kind, ptr |-> o, borrows |-> {}]
      /\ \A t \in Slots : t # s => views'[t] = views[t]
  BY DEF Put, TypeOK
<1>2. views'[s] # Null
  <2>1. views'[s] \in View
    BY <1>1 DEF View, Kinds
  <2> QED BY <2>1, NullAssumption
<1>3. LockedObject(s) = Null /\ LockedObject(s)' = o
  BY <1>1, <1>2 DEF LockedObject, Held, InScope
<1> QED BY <1>1, <1>3, LockedUnchanged

\* Functions and segments are what PinnedFunctions promises: the lookups hold,
\* the last use releases, plugins and the session itself change only what nothing
\* is held of, and all else stutters.
THEOREM ViewsRefinePinned == Spec => ImplementsPinnedFunctions
<1> DEFINE held == [s \in Slots |-> LockedObject(s)]
<1>1. Init => Pinned!Init
  <2> SUFFICES ASSUME Init PROVE Pinned!Init
    OBVIOUS
  <2>1. held = [s \in Slots |-> Null]
    BY DEF Init, LockedObject, Held, InScope
  <2> QED BY <2>1 DEF Init, Pinned!Init
<1>2. ASSUME Inv, [Next]_vars
      PROVE  [Pinned!Next]_<<tables, held>>
  <2>1. TypeOK /\ AllPending
    BY <1>2 DEF Inv
  <2>2. (\A s \in Slots : LockedObject(s)' = LockedObject(s)) => UNCHANGED held
    OBVIOUS
  <2>3. ASSUME UNCHANGED <<views, unused>> PROVE UNCHANGED held
    BY <2>2, <2>3, LockedUnchanged
  <2>4. ASSUME Open \/ RunPlugin \/ Close PROVE Pinned!Next
    <3>1. UNCHANGED <<views, unused>> /\ tables' \in SUBSET Objects
      BY <2>4 DEF Open, RunPlugin, Close
    <3>2. ASSUME NEW s \in Slots, held[s] # Null PROVE held[s] \in tables'
      <4>1. Held(s, "Function") \/ Held(s, "Segment")
        BY <3>2 DEF LockedObject
      <4>2. held[s] = views[s].ptr /\ views[s] # Null /\ s \notin unused
        BY <4>1 DEF LockedObject, Held, InScope
      <4>3. AllSound'
        BY <1>2, NextInv DEF Inv
      <4>4. Sound(s)'
        BY <3>1, <4>2, <4>3 DEF AllSound
      <4> QED BY <3>1, <4>1, <4>2, <4>4 DEF Sound, Held, InScope
    <3>3. UNCHANGED held
      BY <2>3, <3>1
    <3>4. Pinned!Change(tables')
      BY <3>2, <3>3 DEF Pinned!Change
    <3> QED BY <3>1, <3>4 DEF Pinned!Next
  <2>5. ASSUME NEW s \in Slots, NEW o \in Objects, FunctionAt(s, o) \/ SegmentAt(s, o)
        PROVE  Pinned!Next
    <3>1. PICK kind \in {"Function", "Segment"} : Put(s, kind, o, {})
      BY <2>5 DEF FunctionAt, SegmentAt
    <3>2. o \in tables /\ UNCHANGED <<tables, unused>>
      BY <2>5 DEF FunctionAt, SegmentAt
    <3>3. s \notin unused
      BY <2>1, <3>1 DEF Put, AllPending
    <3>4. /\ held[s] = Null
          /\ held' = [held EXCEPT ![s] = o]
      BY <2>1, <3>1, <3>2, <3>3, LockedComes
    <3>5. Pinned!Hold(s, o)
      BY <3>2, <3>4 DEF Pinned!Hold
    <3> QED BY <3>5 DEF Pinned!Next
  <2>6. ASSUME NEW s \in Slots, Disuse(s) \/ Drop(s)
        PROVE  Pinned!Next \/ UNCHANGED <<tables, held>>
    <3>1. /\ views'[s] = Null \/ s \in unused'
          /\ UNCHANGED tables
          /\ \A t \in Slots : t # s => views'[t] = views[t] /\ (t \in unused' <=> t \in unused)
      BY <2>1, <2>6 DEF Disuse, Drop, TypeOK
    <3>2. LockedObject(s)' = Null
      BY <3>1 DEF LockedObject, Held, InScope
    <3>3. \A t \in Slots : t # s => LockedObject(t)' = LockedObject(t)
      BY <3>1, LockedUnchanged
    <3>4. CASE LockedObject(s) = Null
      BY <2>2, <3>1, <3>2, <3>3, <3>4
    <3>5. CASE LockedObject(s) # Null
      <4>1. held' = [held EXCEPT ![s] = Null] /\ held[s] # Null
        BY <3>2, <3>3, <3>5
      <4>2. Pinned!Drop(s)
        BY <3>1, <4>1 DEF Pinned!Drop
      <4> QED BY <4>2 DEF Pinned!Next
    <3> QED BY <3>4, <3>5
  <2>7. ASSUME NEW s \in Slots, Facade(s) \/ InsnAt(s) \/ MetaMut(s)
        PROVE  UNCHANGED <<tables, held>>
    <3>1. PICK kind \in {"Facade", "Insn", "MetadataMut"} : Put(s, kind, Null, {})
      BY <2>7 DEF Facade, InsnAt, MetaMut
    <3>2. UNCHANGED <<tables, unused>>
      BY <2>7 DEF Facade, InsnAt, MetaMut
    <3>3. UNCHANGED held
      BY <2>1, <2>2, <3>1, <3>2, OtherComes
    <3> QED BY <3>2, <3>3
  <2>8. ASSUME NEW s \in Slots, NEW v \in Slots,
               Cfg(s, v) \/ Decompile(s, v) \/ Body(s, v) \/ CBlockIter(s, v) \/ CInsn(s, v)
        PROVE  UNCHANGED <<tables, held>>
    <3>1. \/ UNCHANGED views
          \/ \E kind \in {"FunctionCFG", "CFunction", "CBlock", "CBlockIter", "CInsn"} :
               \E ptr, borrows : Put(s, kind, ptr, borrows)
      BY <2>8 DEF Cfg, Decompile, Body, CBlockIter, CInsn, Part
    <3>2. UNCHANGED <<tables, unused>>
      BY <2>8 DEF Cfg, Decompile, Body, CBlockIter, CInsn, Part
    <3>3. UNCHANGED held
      BY <2>1, <2>2, <2>3, <3>1, <3>2, OtherComes
    <3> QED BY <3>2, <3>3
  <2>9. ASSUME NEW s \in Slots, NEW v \in Slots, NEW n \in 0 .. MaxBlocks,
               BlockById(s, v, n) \/ \E c \in Slots : Neighbour(s, v, c, n)
        PROVE  UNCHANGED <<tables, held>>
    <3>1. \E ptr, borrows : Put(s, "BasicBlock", ptr, borrows)
      BY <2>9 DEF BlockById, Neighbour
    <3>2. UNCHANGED <<tables, unused>>
      BY <2>9 DEF BlockById, Neighbour
    <3>3. UNCHANGED held
      BY <2>1, <2>2, <3>1, <3>2, OtherComes
    <3> QED BY <3>2, <3>3
  <2>10. ASSUME UNCHANGED vars \/ \E s \in Slots : DropTooLate(s)
         PROVE  UNCHANGED <<tables, held>>
    <3>1. UNCHANGED <<tables, views, unused>>
      BY <2>10 DEF vars, DropTooLate
    <3> QED BY <2>3, <3>1
  <2> HIDE DEF held
  <2> QED BY <1>2, <2>4, <2>5, <2>6, <2>7, <2>8, <2>9, <2>10 DEF Next, Step, Objects
<1> QED
  BY <1>1, <1>2, Invariance, PTL DEF Spec, ImplementsPinnedFunctions, Pinned!Spec

\* The sessions of Views are those Session keeps.
THEOREM ViewsRelyOnLife == Spec => ImplementsSessionLife
<1>1. Init => Life!Init
  BY DEF Init, Life!Init
<1>2. ASSUME [Next]_vars PROVE [Life!Begin \/ Life!End]_<<opened, decompiler>>
  <2>1. CASE Open
    BY <2>1 DEF Open, Life!Begin
  <2>2. CASE Close
    BY <2>2 DEF Close, Unborrowed, Life!End
  <2>3. CASE RunPlugin \/ UNCHANGED vars
    BY <2>3 DEF RunPlugin, vars
  <2>4. ASSUME NEW s \in Slots, NEW x, FunctionAt(s, x) \/ SegmentAt(s, x)
        PROVE  UNCHANGED <<opened, decompiler>>
    BY <2>4 DEF FunctionAt, SegmentAt
  <2>5. ASSUME NEW s \in Slots,
               \/ Facade(s) \/ InsnAt(s) \/ MetaMut(s)
               \/ Disuse(s) \/ Drop(s) \/ DropTooLate(s)
        PROVE  UNCHANGED <<opened, decompiler>>
    BY <2>5 DEF Facade, InsnAt, MetaMut, Disuse, Drop, DropTooLate
  <2>6. ASSUME NEW s \in Slots, NEW v \in Slots,
               Cfg(s, v) \/ Decompile(s, v) \/ Body(s, v) \/ CBlockIter(s, v) \/ CInsn(s, v)
        PROVE  UNCHANGED <<opened, decompiler>>
    BY <2>6 DEF Cfg, Decompile, Body, CBlockIter, CInsn, Part
  <2>7. ASSUME NEW s \in Slots, NEW v \in Slots, NEW n,
               BlockById(s, v, n) \/ \E c \in Slots : Neighbour(s, v, c, n)
        PROVE  UNCHANGED <<opened, decompiler>>
    BY <2>7 DEF BlockById, Neighbour
  <2> QED BY <1>2, <2>1, <2>2, <2>3, <2>4, <2>5, <2>6, <2>7 DEF Next, Step
<1> QED BY <1>1, <1>2, PTL DEF Spec, ImplementsSessionLife, Life!Spec
=============================================================================
