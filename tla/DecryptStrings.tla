--------------------------- MODULE DecryptStrings ---------------------------
(***************************************************************************)
(* idalib/examples/decrypt_strings.rs: for each call of a function that    *)
(* decrypts a string, a program scans the instructions before it for the   *)
(* address and the size it is called with, in RCX and RDX, and decrypts    *)
(* what is there.  The instructions and what is stored at the address are  *)
(* the choice of the step that reads them; a stored string is ASCII, and   *)
(* of its encrypted bytes only every other one is ever read.               *)
(*                                                                         *)
(* A definition whose name starts with Faulty is the definition after it   *)
(* with a plausible mistake, kept to show that a property notices it.      *)
(***************************************************************************)
EXTENDS Naturals, Sequences, FiniteSets, Functions, Bitwise

CONSTANTS
    Insns,      \* the instructions, of two operands, the first one a register
    Sizes,      \* the sizes of stored strings
    Chars,      \* the bytes of a decrypted string
    MaxSeen     \* bound on the instructions the program looks at before a call

VARIABLES
    seen,       \* the instructions before the call that were looked at, nearest first
    enc,        \* the EncString of the call; each field has at most one element
    stored,     \* the string stored at the address, and its encrypted bytes
    phase,      \* what the program does: "scan", "found", "none", "decrypted", "panicked"
    text        \* what decrypt returned; {} is None

vars == <<seen, enc, stored, phase, text>>

Nothing == [plain |-> <<>>, bytes |-> <<>>]
Default == [address |-> {}, size |-> {}]

Init ==
    /\ seen = <<>> /\ enc = Default /\ phase = "scan"
    /\ stored = Nothing /\ text = {}

-----------------------------------------------------------------------------
(* handle_xref.                                                            *)

Ready(e) == e.address # {} /\ e.size # {}

\* lea rcx, [address], lea rdx, [r + size] and mov rdx, size.
SetsAddress(insn) == insn.itype = "lea" /\ insn.reg = "RCX" /\ insn.type = "Mem"
SetsSize(insn) ==
    /\ insn.reg = "RDX"
    /\ <<insn.itype, insn.type>> \in {<<"lea", "Displ">>, <<"mov", "Imm">>}

\* A setting farther from the call replaces a nearer one.
Noted(e, insn) ==
    [address |-> IF SetsAddress(insn) THEN {insn.value} ELSE e.address,
     size |-> IF SetsSize(insn) THEN {insn.value} ELSE e.size]

\* A turn of the loop: the instruction at the head before.
Look(insn) ==
    /\ phase = "scan" /\ Len(seen) < MaxSeen
    /\ seen' = Append(seen, insn)
    /\ enc' = IF insn.ends THEN enc ELSE Noted(enc, insn)
    /\ phase' = IF insn.ends THEN "none" ELSE IF Ready(enc') THEN "found" ELSE "scan"
    /\ UNCHANGED <<stored, text>>

\* The call is in no segment, or one without a name; there is no head before, or
\* one that does not decode.
GiveUp == phase = "scan" /\ phase' = "none" /\ UNCHANGED <<seen, enc, stored, text>>

-----------------------------------------------------------------------------
(* EncString::decrypt.                                                     *)

ShrinkByte(b) == IF b > 127 THEN b - 96 ELSE b

\* dec after the first loop, with its indexes from 0 and the 0 it ends with.
Unchained(bytes, size) ==
    LET dec[j \in 0 .. size] ==
          IF j = size THEN 0 ELSE ShrinkByte(bytes[2 * j + 1]) ^^ dec[j + 1] IN dec

FaultySwapped(dec, size) ==    \* the last pair of an even size is left out
    [j \in 0 .. size - 1 |->
       IF j % 2 = 0 /\ j + 2 < size THEN dec[j + 1]
       ELSE IF j % 2 = 1 /\ j + 1 < size THEN dec[j - 1] ELSE dec[j]]

\* The loop that swaps neighbours; the last byte of an odd size has none.
Swapped(dec, size) ==
    [j \in 0 .. size - 1 |->
       IF j % 2 = 1 THEN dec[j - 1] ELSE IF j + 1 < size THEN dec[j + 1] ELSE dec[j]]

\* The loop that reverses, and truncate.
Decrypted(bytes, size) ==
    [t \in 1 .. size - 1 |-> Swapped(Unchained(bytes, size), size)[size - t]]

\* IDB::get_bytes gives all the bytes that were asked for or none, and no bytes
\* are indexed like any others: a panic.
Decrypt(string) ==
    /\ stored' = string
    /\ \E size \in enc.size :
         LET missing == size >= 3 /\ Len(string.bytes) < 2 * size IN
         /\ phase' = IF missing THEN "panicked" ELSE "decrypted"
         /\ text' = IF size < 3 \/ missing THEN {} ELSE {Decrypted(string.bytes, size)}
    /\ UNCHANGED <<seen, enc>>

FaultyNextXRef ==    \* one EncString for all calls
    /\ phase \in {"none", "decrypted"} /\ seen' = <<>> /\ phase' = "scan"
    /\ stored' = Nothing /\ text' = {} /\ UNCHANGED enc

\* The loop of main goes on with next_to.
NextXRef ==
    /\ phase \in {"none", "decrypted"} /\ seen' = <<>> /\ phase' = "scan"
    /\ enc' = Default /\ stored' = Nothing /\ text' = {}

-----------------------------------------------------------------------------
(* The encryption, from the other side: byte j is the key of two neighbours *)
(* of the shuffled text, moved up by 96 or not where shrink_byte tells.     *)

Encryptions(plain, pad, size) ==
    LET padded == Append(plain, pad)
        other(i) == IF i % 2 = 1 THEN i - 1 ELSE IF i = size - 1 THEN i ELSE i + 1
        shuffled(j) == IF j = size THEN 0 ELSE padded[size - other(j)]
        key(j) == shuffled(j) ^^ shuffled(j + 1)
        byte(j, high) == IF high /\ key(j) >= 32 THEN key(j) + 96 ELSE key(j)
    IN {[i \in 1 .. 2 * size |-> IF i % 2 = 1 THEN byte(i \div 2, up[i \div 2]) ELSE 0] :
          up \in [0 .. size - 1 -> BOOLEAN]}

\* A string of a size has one byte less than it, and one of padding.
Strings == {Nothing} \cup
    UNION {{[plain |-> plain, bytes |-> bytes] : bytes \in Encryptions(plain, pad, size)} :
              <<size, plain, pad>> \in
                 UNION {{n} \X [1 .. n - 1 -> Chars] \X Chars : n \in Sizes}}

Next ==
    \/ \E insn \in Insns : Look(insn)
    \/ GiveUp
    \/ phase = "found" /\ \E string \in Strings : Decrypt(string)
    \/ NextXRef

Spec == Init /\ [][Next]_vars

-----------------------------------------------------------------------------
Written(reg) == {i \in DOMAIN seen : seen[i].reg = reg}
Values(reg) == {seen[i].value : i \in Written(reg)}

\* If no instruction that was looked at sets one of the registers over again, what
\* is decrypted is the call's own argument, set in its basic block and not left
\* over from another call; and if a string of that size is there, of at least three
\* bytes, its text comes out of it, without a panic.
ArgumentIsDecrypted ==
    /\ phase \in {"decrypted", "panicked"}
    /\ \A reg \in {"RCX", "RDX"} : Cardinality(Written(reg)) <= 1
    => /\ enc.address = Values("RCX") /\ enc.size = Values("RDX")
       /\ \A i \in DOMAIN seen : ~seen[i].ends
       /\ \A size \in enc.size :
            size >= 3 /\ Len(stored.bytes) = 2 * size => text = {stored.plain}
=============================================================================
