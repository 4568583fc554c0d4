# idalib in TLA+

Models, model checks and proofs for idalib, the Rust bindings over the IDA SDK
(`src/idalib`, `src/idalib-sys`, `src/idalib-build`). The SDK itself is not part
of the repository. Wherever the code calls it, the models take what the code, its
comments and its examples rely on, and let a call that can fail do so
nondeterministically.

## 1. The system

| component | state it keeps | operations | what is hard | what makes it correct |
|---|---|---|---|---|
| library initialisation and lock (`idalib/src/lib.rs`, `ida` in `idalib-sys/src/lib.rs`, `platform.rs`) | `INIT`: a `OnceLock` around a `Mutex<()>`; the mutex's poison flag | `init_library`, `prepare_library`, `enable_console_messages`, `version` | threads race through `get_or_init`; the closure can panic; main-thread assertions fire at different depths, one of them under the mutex | one initialiser; nobody reaches the mutex before success; a panic leaves nothing half done |
| database session (`idalib/src/idb.rs`, `kernwin_extras.h`) | `IDB`: save wish, decompiler flag, mutex guard | `open*`, `save_on_close`, `Drop` | five failure points under the mutex; drop order; unwinding; a second open by the owner | at most one session; database, plugin and mutex live exactly as long as the handle |
| license (`license.rs`, `kernwin_extras.h`) | none | `is_valid_license`, `license_id` | takes no lock | called on the main thread only |
| bookmarks (`bookmarks.rs`, `bookmarks_extras.h`) | none; the list is the SDK's | `mark`, `mark_with`, `erase`, `erase_by_index`, lookups | indexes shift, holes, overlaid bookmarks, a fatal internal error for a wrong index | the erase guard is exact; `mark` loses nothing |
| string list (`strings.rs`, `strings_extras.h`) | iterator index | `rebuild`, `clear`, lookups, `iter` | the list changes under an iterator (`&self`) | growth loses nothing, shrinking repeats nothing, an item has the length and the exact bytes of one string, and the loop ends |
| name list (`name.rs`) | iterator index | lookups, `iter` | entries shift under the index | growth loses nothing, shrinking repeats nothing |
| search (`idb.rs`, `search_extras.h`) | captured cursor | `find_text`, `find_imm`, `find_defined`, two iterators | two searches drive one cursor; comments change meanwhile | ascending, finite, complete where the SDK allows |
| entry points (`idb.rs`) | index, limit | `entries` | the limit is taken once, the table can change | the index stays within the limit, so that `size_hint` never wraps |
| comments (`idb.rs`, `comments_extras.h`, `func_extras.h`) | none | get, set, append, remove, per address and per function | two copies of each operation; a function's comment is reached through any of its addresses and shown at its start; interplay with the search iterators | an edit, `append_cmt` included, changes one function's comment or one address's, and nothing else |
| functions and flow charts (`func.rs`, `func_extras.h`) | a lock on the SDK object, a flow chart | lookups, `functions`, blocks, successors | a list that changes between count and lookup; several handles on one function; `expect("valid block")` | a held function is never deleted; ids stay true while handles are kept; every index a block hands out is valid |
| segments (`segment.rs`, `segm_extras.h`) | a lock on the SDK object | lookups, attributes | as functions | as functions |
| decompiler (`decompiler.rs`, `hexrays_extras.h`) | a counted reference to a decompiled function | `decompile`, blocks, iteration | an error is reported by a code and by a null pointer; raw pointers into the decompiled function | an error is never returned as a function; a failed call keeps no reference; what is in use is there |
| instructions (`insn.rs`) | a copy of the decoded instruction | predicates, operands and their accessors | the value outlives the session; an instruction that fills all of `ops` | `operand` and `operand_count` agree, and each operand can be read |
| cross-references (`xref.rs`) | the SDK's cursor, cloned field by field | `first_xref_*`, `next_*` | every cursor of a walk can be kept and walked on from; references come and go under it | ascending, of the kind asked for, complete for what stays |
| metadata, processor (`meta.rs`, `processor.rs`, `inf_extras.h`) | none | getters, setters, predicates | bit fields shared by many accessors | a setter excludes every other use of the `IDB` |
| plugins (`plugin.rs`) | none | find, load, run | running one takes `&self` and changes anything | no iterator misbehaves |
| bytes (`idb.rs`, `bytes_extras.h`) | none | `get_bytes` and fixed widths | the vector is filled to its capacity; an SDK error becomes length 0 | exactly as long as asked, or empty |
| build scripts (`idalib-build`, the `build.rs` files) | what cargo keeps of a script's output | path lookups, three linkage helpers, the fallback of `idalib` | a script decides at its own time, the linker and the loader look later, cargo repeats the script only if a file of the package changed; two libraries are needed and one is looked for | the fallback always builds; what was built for an installation starts with it |
| examples (`idalib/examples`) | none | programs of calls of the library | passes that rely on what the one before left; a scan that overwrites; byte arithmetic at the ends of a buffer | every assertion holds; the argument of the call is what is decrypted |

The parts meet in three ways. Every object of a session in use borrows the `IDB`
value, and the `IDB` value owns the guard of the mutex, so the borrow checker and
the mutex together keep the use of the SDK single-threaded. Destructors are another
matter: those of `Function`, `Segment`, `FunctionCFG` and `CFunction` may run after
the `IDB` is gone (section 2, `Views`). All state that matters lives in the
SDK and is reached by index or address, and almost every operation takes `&self`,
so any list can change between two steps of any iterator. The lock-free calls
(license, console, version) rely on the main-thread assertions alone.

## 2. Modules

* `ExclusiveSession` is the promise of `IDB` to its user: sessions begin, change
  their mind about saving, end, and may become impossible for good.
* `Session` is the code: threads with a program counter, the once-cell, the mutex
  with its owner and poison flag, the request, the `IDB` value and the last result
  of each thread, and the SDK's database, plugin and file. One action per step
  that another thread can observe or that can fail: `OnceClaim` and `InitLibrary`
  are `get_or_init`; `Lock` is `prepare_library` with its unwrap; `CheckPath`,
  `OpenQuiet`, `InitDatabase`, `Analyse`, `InitHexrays` are `open_full_with` in
  its order, the last one building the handle; `TermHexrays` and `CloseDatabase`
  are `Drop for IDB`; `Release` drops the guard; `Unwound` is where a panic leaves
  the library. The refinement mapping reads the session off the main thread's
  handle and `broken` off the poison flag.
* `SessionLife` is what `Session` promises to the values of a session: as long as
  the `IDB` value is there the decompiler is initialised throughout or not at all.
  The refinement mapping lets a session last from the construction of the handle
  until its drop has terminated the decompiler. `Views`, where a session opens and
  closes in one step, refines it too.
* `SessionProofs` holds the proofs about `Session`.
* `Bookmarks` is the SDK list as the notes in `bookmarks.rs` describe it and the
  operations over it, with one index the program keeps from `mark`; a description
  without text reads as none. `BookmarksProofs` holds the proofs.
* `StringList` is the SDK's list of strings, with the length each had when the list
  was built, over the bytes the database has now, which may have changed or be gone.
  `GetBytes` is `IDB::get_bytes` over its shim: a vector filled to its capacity, and
  an error that becomes no bytes. The iterator fetches address, length and bytes
  separately; no bytes are an empty text. `steady`, `grown` and `shrunk` are
  history: which strings were in the list ever since the loop began, and whether any
  joined or left.
* `NameList` is the list of names and its iterator. A loop of `next` that passes
  over entries is one action that goes to the first entry it would stop at:
  nothing can run in between, and no recursion is needed. It has the same history.
* `Ranks` is the position of an entry in a table the SDK keeps sorted, the number
  of entries below it; `FunctionHandles`, `NameList` and `StringList` look up by
  it. `OrderLemmas` proves what the lookups rest on.
* `EntryPoints` is `entries` and its iterator, with `size_hint`.
* `XRefs` is a walk along cross-references: a chain of cursors, each cloned from
  the one before, any of which the program may return to. `lasting` is history:
  the references that were there ever since the walk began.
* `Operands` is `operand`, `operand_count` and the accessors of `Operand`.
* `Loops` composes these five: a program runs one loop, and the body of the loop
  changes what it runs over. What all iterators have, a position, what was
  returned and whether the end was reached, is shared; each keeps its own actions
  and properties. `LoopsProofs` holds the proofs about it.
* `SearchIter` is `find_text_iter` and `find_imm_iter` against the edits of
  comments, those of addresses and those of functions; `SearchProofs` holds the
  proofs.
* `BookmarksLs`, `CommentsLs` and `DecryptStrings` are three programs of
  `idalib/examples`: the two that assert after each call what it should have done,
  over the operations of `Bookmarks` and of `SearchIter`, one action per turn of a
  loop; and the one that looks for the argument of a call in the instructions
  before it and decrypts what is there. There the encryption is modelled from the
  other side, so that a string that goes in must come out.
* `Programs` composes these with `Bookmarks`: a program is any that uses bookmarks,
  or one of the three examples. What it does not use keeps one value.
* `PinnedFunctions` is the promise of a `Function<'_>`: what is held is not
  deleted. `FunctionHandles` refines it, and so does `Views`, with functions and
  segments and over several sessions.
* `FunctionHandles` is the code: the kernel's functions with their extents and
  lock counts, `function_at`, `function_by_id`, `function_count`, the `Function`
  in each of a set of slots, its drop, and the iterator of `functions` with the
  count it took. Running a plugin replaces the table by any other that keeps what
  is locked. The variables `listed`, `kept` and `grown` are history: what the
  iterator returned, whether each of those functions always had a handle since,
  and whether functions were created. The refinement mapping is the table's
  domain.
* `FunctionHandlesProofs` holds the proofs about it.
* `Views` is the values of a session: what each kind of value borrows, as its type
  says, and what it points to. Slots are the program's variables; `Droppable`,
  `Shared` and `Unborrowed` are the compiler's rules, which hold for values that will
  be used again. `Function`, `Segment`, `FunctionCFG` and `CFunction` have no `Drop`
  impl and nothing in them that is destroyed mentions a lifetime, so the drop check
  lets one that is in scope and not used any more be destroyed after what it
  borrowed, the `IDB` included: `Disuse` makes a value `unused`, and `Close` makes the
  `unused` ones `late`. What is destroyed late is `undefined` (`DropTooLate`), except a
  flow chart, which is memory of its own. Panics have no steps: unwinding destroys
  what the frames hold by the same rules. The heap of flow charts and the reference
  counts of decompiled functions are kept apart from the borrows, so that whether the
  borrows suffice is a question. `Neighbour` is `succs_with` and `preds_with` with any
  flow chart. `Decompile` has every outcome the shim and the Rust side tell apart, the
  failed ones with the references they make and give back. A decompiled function is
  not tied to the `Function` it came from, which may be deleted meanwhile.
  `ViewsProofs` holds the proofs.
* `Linkage` is a build and the start of what was built: the environment, the
  libraries in each directory and the SDK checkout change at any time; a build
  script decides from what it finds, cargo keeps what it printed, and the loader
  looks later. The script of `idalib-sys` also watches the headers it includes,
  because `autocxx_build` says so to cargo. `LinkageProofs` holds the proofs.
* `MC*` modules give the instances their symmetry and the values a `.cfg` cannot
  write; each `.cfg` names its bounds.

A definition named `Faulty...` is the definition after it with one mistake. No
model uses it; each shows that a property notices that mistake.

## 3. Runs

| run | instance | shows |
|---|---|---|
| `session` | main thread and two interchangeable workers, no failed analysis | lock discipline, soundness of the handle, one initialiser, no database or plugin left behind, only the main thread touches the SDK, finality of poison, permanence of a self-deadlock, refinement of `ExclusiveSession` and of `SessionLife` |
| `session_live` | main thread and one worker, analysis may fail | opens, drops and initialisations come to an end |
| `session_failed_analysis` | main thread, analysis may fail | finding: an open that failed leaves the database open |
| `programs` | two addresses, two descriptions, five usable indexes; four functions to bookmark and three to comment; instructions of every sort the scan tells apart, sizes 2 to 5 | the erase guard, `mark`, kept indexes, holes; the assertions of two examples; the third decrypts the call's own argument |
| `loops` | two string addresses and two lengths, four names, three entry points at two addresses, four references of every kind, up to three operands | what a loop over each of them returns while its body changes it, and that the loop ends |
| `strings_decode` | three addresses, one not UTF-8 | finding: a string of one byte that is not UTF-8 is returned |
| `views` | a function, a segment, five slots, two pieces of heap, charts of up to two blocks | what a value in use points to is there, and what a destructor of an open session gives back; a session leaves only what values still in scope will give back; refinement of `PinnedFunctions` |
| `search` | four addresses, two functions, both kinds, both readings of the text search | order, completeness, end of the loop; every edit of a comment stays where it belongs |
| `functions` | four addresses, three interchangeable handles | handles stay valid (the refinement of `PinnedFunctions`), locks are given back, which ids and listings can be relied on |
| `entries_size_hint` | up to three entries at two addresses | finding: the iterator never advances |
| `linkage` | the default directory and another one, three platforms, four scripts | the fallback script always builds, and what it built for an installation starts |
| `linkage_stale` | the same | finding: a new `IDADIR` does not count |

**Why the bounds are enough.** In `session` nothing is bounded but the number of
threads: calls, panics and sessions repeat for ever. Two workers are the fewest that
can race with each other while the main thread holds the mutex, and the proofs cover
every number. In `programs`, `BadIndex` = 5 gives the list room for a hole, a shift
and the reserved index at once, and room for the marks of the example even when one
too many is skipped. Its functions to comment are at address 0, adjoin each other,
and stand behind an address of none, and comments of an earlier run are on any of
them. Strings of even and of odd sizes are stored, of two letters whose keys are on
both sides of 32, where encrypted bytes jump beyond 127; calls ask for sizes below,
at and beyond what is stored. In `loops` two strings of two lengths let a list be
stale in every way: a string that is gone, new, longer or shorter. Four names and
four references let an iterator stand before, on and behind one that comes or goes
while others remain on both sides; the references are one of flow, one far and two
of data, so that each query hides some and shows others. Three operand slots suffice
for none, some and all of them in use. In `search` four addresses hold a function of
several addresses beside another, and matches at 0 and next to each other. `linkage`
needs a directory the lookup knows without `IDADIR` and one it does not. Four
addresses hold up to four functions, and three handles let two of them share a
function while the third keeps or loses another; the proofs cover every number of
both. In `views` five slots hold a function, two of its flow charts and a block of
each, or a function, what it was decompiled to, and a block, an iterator and an
instruction of that; one function and one segment suffice, because values on
different objects have nothing in common. Nothing else is bounded; the proofs cover
every number. `MaxYielded` of `NameList` and `MaxFound` of `SearchIter` exceed what
the iterators can return by one; they bind only when a mistake makes an iterator
repeat itself. For the entry points `MaxYielded` does bind, because that iterator
does repeat itself: a program stops asking.

**Deadlock.** It is checked wherever the system cannot stop. In `Session` the main
thread can wait for itself while every worker has ended. An example of `programs`
ends, or panics; and in `views` a program stops where a destructor runs too late,
because nothing can be said of what follows.

**Fairness.** `session_live` assumes that a thread that can take a step inside the
library, a drop or an unwinding eventually takes it: the operating system's
scheduling, and the SDK's calls returning. It assumes nothing of the program and
no order of the mutex, which in the standard library promises none; so nothing is
claimed about a thread that only waits. In `Loops` and `SearchIter` it is the head
of the program's loop, which runs again after its body as long as the SDK's calls
return; nothing is assumed of the body. `LoopsEnd` excepts the loop over entry
points, which never ends (finding 3), and a walk whose program goes back for ever.

## 4. Proofs

`SessionProofs` proves, for every set of threads with a main thread and for both
values of `AnalysisMayFail`, the invariants and action properties of the run
`session` and both refinements. The assumptions are the named ones of `Session`: the
main thread is a thread, and the null values differ from what they stand in for.

The inductive invariant `Inv` adds to the checked invariants what a thread's stage
says of everything else: the arguments are there while open runs (`RequestInv`); a
handle exists from its construction to its close, only the main thread gets past the
assertion, and no stage under the mutex sees it poisoned (`StageInv`); the plugin is
initialised for the handle's sake alone (`PluginInv`, which also gives the end of a
session in `SessionLife`); and, if no analysis fails, where the database is closed
(`ClosedInv`). Without `StageInv` neither `HandleIsSound` nor `PoisonIsFinal` is
inductive: `InitHexrays` could build a handle on a worker or under a poisoned mutex.
Each action has a lemma; `PanicStep` and `FailStep` are shared by the actions that
can panic or fail.

`FunctionHandlesProofs` proves, for every finite set of addresses and of slots,
that handles stay valid, that the lock of a function counts the handles on it, and
the refinement. `HandlesStayValid` alone is not inductive: that a plugin spares a
held function follows from its lock, so `HandleInv` carries both and the step of
dropping one of two handles rests on counting the others.

Its second half proves what may be relied on while listing. A function's id is its
rank, the number of functions that start below it; the lemmas of `OrderLemmas` say
that ranks rise with the address, stay below the number of functions, reach every
number below it and never rise when functions go. `CursorInv` places the iterator
behind the ranks of what it returned and its end at or above the number of
functions; this gives `NothingListedTwice`. `KeptInv` adds, as long as the handles
are kept, that the returned functions are exactly those below the cursor: nothing
below one of them is missing, and it gives the other two. Both sets are assumed
finite, and the addresses to be numbers other than the null value.

Assumed of the SDK, which the repository does not contain: functions are numbered
in the order of their addresses, do not overlap, and one that is locked with
`lock_func` is neither deleted nor moved until it is unlocked as often as it was
locked. Tails of functions are left out.

`BookmarksProofs` proves, for any addresses and descriptions and for every largest
index, that the SDK's internal error is never reached, that a list is dense unless
`mark_with` skipped an index, and what a kept index denotes. None of the three is
inductive: that a kept index denotes its bookmark needs that marks fill empty
slots only and that nothing stands beyond the end (`NothingBeyondTheEnd`), so
`HandleInv` follows it through the shift of an erasure.

`ViewsProofs` proves, for every number of variables, functions, segments, flow
charts and decompiled functions, that nothing dangles and what a session leaves.
`NothingDangles` says that what a value in use points to is there, and that what an
unused one gives back is there as long as its session lasts. The invariant says why:
`Sound` names for each kind of value in use the slot it borrows that is in use itself
and owns, directly or through others, what it points to; `Pending` says what an unused
value still owns; and the compiler's rule that what a value in use borrows is neither
dropped nor disused carries `AllSound` and `AllPending` over every step. `OneOwner`
makes a destructor free nobody else's memory; `NoLeak` and `LocksAreHolders` (the lock
of an object counts the slots of the session on it) bound what is left when no value
is in use any more. Destructors that run after the session are not covered: they are
the steps `DropTooLate`, after which nothing is claimed. The slots are assumed finite,
which any program's are. Two refinements are proved as well: a step of `Views` is one
of `PinnedFunctions` on the functions and segments in use, until each is used for the
last time, or a stutter; and the sessions are those of `SessionLife`, so what `Views`
takes for granted about the decompiler is what `SessionProofs` proves that `Session`
keeps. That one is proved and not run.

`SearchProofs` proves, for every number of addresses and any functions, order and
completeness of both iterators, and that every edit of a comment, `append_cmt`
included, changes that of one function or of one address alone. A
text search goes on behind what it found, one for immediates at it
(`FoundIsPassed`); `TextPassed` and `ImmPassed` say that what was passed was
found. That a search returns the least hit rests on the natural numbers being well
founded, for which the library has a lemma without induction.

`LoopsProofs` proves, for any addresses, lengths, references and numbers of entries
and operands, every property of the run `loops` except that loops end. For strings
and names the invariants (`PassedStrings` and `StringsAhead`, `PassedIsReturned` and
`AheadIsAbove`) say what stands on either side of the index: unless an entry left,
everything behind it that was there all along was returned; unless one joined,
everything ahead is above all that was returned. Neither half survives the other's
event, because an index counts entries and does not name one; and each rests on
ranks, which rise when an entry joins and fall when one leaves. An item of the
string loop has the address, the length and the bytes of one string, and a lookup
below `len()` has exactly one answer. The sets of addresses are assumed finite, as
those of 64 bits are. Assumed of the SDK: both lists are sorted by address, with one
entry for each. For the others, walks are exact, the entry loop stays within the
limit it took and returns nothing once it ended, and operands are covered. `WalkInv`
says of every prefix of the walk what `WalkIsExact` says of an ended one, since the
program may go back to any of them.

`LinkageProofs` proves `FallbackWorks` for every set of directories, from a lemma for
each of its halves: the script builds wherever the SDK is, and what it built starts.
`FallbackInv` says that cargo keeps no output of the fallback script that the program
was not linked with, and that the installation behind its RPATH was complete.

Only model-checked: the liveness properties `OpenFinishes`, `DropFinishes`,
`InitSettles`, `LoopsEnd` and `LoopEnds`, which are beyond the prover, and the two
properties of the examples, `AssertionsHold` and `ArgumentIsDecrypted`: they say what
finite programs do on an instance, and the arithmetic of the third is on bits, where
the prover has no backend. Proved and
not run: `TypeOK` of `Bookmarks`, `FunctionHandles` and `Views`, which the invariants
above contain, `HandlesStayValid`, which the refinement of `PinnedFunctions`
contains, and the refinement of `SessionLife` by `Views`.

## 5. Findings

1. `kernwin_extras.h:160`: a failed auto-analysis becomes the error of the open
   although the database is open. `IDB::open` returns `OpenDb` ("could not open
   IDA database"), frees the mutex, and nobody closes the database.
2. `strings.rs:48`: the iterator's comment says strings that are not UTF-8 are
   skipped; the lossy conversion returns them. The trace is a fresh list with a
   string of one byte that is not UTF-8.
3. `idb.rs:618`: the entry point iterator returns its first entry for ever.
4. `idalib-build/src/lib.rs:58`: `IDADIR` is read by the build scripts, and nothing
   tells cargo so (`rerun-if-env-changed`). A build with a new `IDADIR` keeps the RPATH
   of the old one, although the README says `configure_linkage` takes the directory
   "specified via `IDADIR`" (`README.md:121`) and advises to set it at build time
   (`README.md:131`).

## 6. What is not modelled, and why

* The end of the process (it cuts a behaviour short), `mem::forget` of a handle,
  and a drop that itself panics.
* The text of names, comments and bookmarks beyond what tells two apart.
* `force_batch_mode` and the console switch, which nothing here reads; `auto_wait`
  after the open, `set_screen_address` and `make_signatures`, which change nothing
  the library keeps.
* The predicates of `processor.rs` and `insn.rs` and the getters of `meta.rs`,
  `segment.rs` and `func.rs`: each is a single SDK call or field, compared with a
  constant at most, so there is no control to model and no state to relate.
* The lists of names in `idalib-sys/src/lib.rs` and `build.rs` for which bindings
  are generated; the functions written by hand among them are modelled with the
  session, the license and the decompiler.
* Repeatable comments, a second pair of the same operations.
* What the SDK does when a lock is given back or a decompiled function released after
  the `IDB` is gone. `drop(idb)` with an unused value in scope compiles and leads
  there; the model marks the place and stops.
* The other examples, which print what one iterator returns. In `DecryptStrings`
  sizes are far from `usize::MAX`, so that `2 * size` does not wrap, and texts are
  ASCII.
* `segment_by_id` casts an id of 64 bits to 32: the ids the library hands out are
  far smaller.
* What the SDK does with an `Insn` after the session, with a decompiled function
  whose function is deleted, or with a plugin that unloaded itself: that is not
  visible in this repository.

## 7. Possible extensions

* Repeatable comments, once the SDK's rule for showing both is documented.
