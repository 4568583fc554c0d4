---------------------------- MODULE LinkageProofs ----------------------------
(***************************************************************************)
(* Proofs about Linkage, for every set of directories: what a program that *)
(* was built by one of the scripts finds when it starts.                   *)
(***************************************************************************)
EXTENDS Linkage, TLAPS

TypeOK ==
    /\ platform \in Platforms /\ script \in Scripts
    /\ idadir \in Dirs \cup {NoPath}
    /\ sys \in BOOLEAN /\ touched \in BOOLEAN /\ moved \in BOOLEAN
    /\ files \in [Dirs -> SUBSET Libraries]
    /\ printed \in Outputs \cup {NotYet} /\ program \in Outputs \cup {NotYet}

\* With the fallback script, cargo keeps no output the program was not linked
\* with, and the installation the program was built for was complete.
FallbackInv ==
    script = "fallback" =>
        /\ printed \in {NotYet, program}
        /\ program.rpath # NoPath /\ ~moved => files[program.rpath] = Libraries

Inv == TypeOK /\ FallbackInv

-----------------------------------------------------------------------------
\* Every helper prints a directory for the linker and at most one for the
\* loader, which is never that of the stubs.
LEMMA HelpersPrintOutputs ==
    ASSUME TypeOK
    PROVE  /\ ConfiguredLinkage \subseteq Outputs
           /\ IdalibLinkage \subseteq Outputs
           /\ IdasdkLinkage \subseteq Outputs
           /\ Fallback \subseteq ConfiguredLinkage \cup IdasdkLinkage
  <1>1. InstallDir \subseteq Dirs
    BY LinkageAssumption DEF TypeOK, InstallDir, LinkPath
  <1>2. InstallPaths \subseteq Dirs /\ SdkPaths \subseteq {Stubs}
    BY <1>1 DEF InstallPaths, SdkPaths
  <1>3. IdalibLinkage \subseteq Outputs /\ IdasdkLinkage \subseteq Outputs
    BY <1>2 DEF IdalibLinkage, IdasdkLinkage, Outputs
  <1>4. ConfiguredLinkage \subseteq Outputs
    BY <1>2, <1>3 DEF ConfiguredLinkage, Outputs
  <1>5. Fallback \subseteq ConfiguredLinkage \cup IdasdkLinkage
    BY DEF Fallback
  <1> QED BY <1>3, <1>4, <1>5

LEMMA ScriptPrintsOutputs ==
    ASSUME TypeOK
    PROVE  ScriptOutput \subseteq Outputs
  BY HelpersPrintOutputs DEF ScriptOutput, TypeOK, Scripts

\* An output of the fallback script with an RPATH names an installation that
\* is complete, and is one the linker can work with.
LEMMA FallbackChoosesWell ==
    ASSUME TypeOK, NEW output \in Fallback
    PROVE  /\ sdk /\ output.search = Stubs
           /\ output.rpath # NoPath => files[output.rpath] = Libraries
  <1>1. PICK dir \in InstallDir :
           output \in IF files[dir] # Libraries THEN IdasdkLinkage ELSE ConfiguredLinkage
    BY DEF Fallback
  <1>2. CASE output \in IdasdkLinkage
    BY <1>2 DEF IdasdkLinkage, SdkPaths
  <1>3. CASE output \notin IdasdkLinkage
    <2>1. files[dir] = Libraries /\ output \in ConfiguredLinkage /\ platform # "windows"
      BY <1>1, <1>3 DEF ConfiguredLinkage
    <2>2. PICK d \in InstallPaths, stubs \in SdkPaths : output = [search |-> stubs, rpath |-> d]
      BY <2>1 DEF ConfiguredLinkage
    <2>3. d = dir
      BY <2>2 DEF InstallPaths, InstallDir, LinkPath
    <2> QED BY <2>1, <2>2, <2>3 DEF SdkPaths
  <1> QED BY <1>2, <1>3

LEMMA InitInv == Init => Inv
  <1> SUFFICES ASSUME Init PROVE Inv
    OBVIOUS
  <1>1. TypeOK
    BY DEF Init, TypeOK
  <1>2. FallbackInv
    BY DEF Init, FallbackInv, NotYet
  <1> QED BY <1>1, <1>2 DEF Inv

LEMMA RunScriptInv == Inv /\ RunScript => Inv'
  <1> SUFFICES ASSUME Inv, RunScript PROVE Inv'
    OBVIOUS
  <1>1. ScriptOutput \subseteq Outputs
    BY ScriptPrintsOutputs DEF Inv
  <1>2. TypeOK'
    BY <1>1 DEF Inv, TypeOK, RunScript, world
  <1>3. FallbackInv'
    <2> SUFFICES ASSUME script = "fallback" PROVE FallbackInv'
      BY DEF FallbackInv, RunScript, world
    <2>1. ScriptOutput = Fallback
      BY DEF ScriptOutput
    <2>2. CASE ScriptOutput = {} /\ printed' = NotYet /\ UNCHANGED <<program, asked, moved>>
      BY <2>2 DEF Inv, FallbackInv, RunScript, world
    <2>3. CASE printed' \in ScriptOutput
      <3>1. /\ sdk /\ printed'.search = Stubs
            /\ printed'.rpath # NoPath => files[printed'.rpath] = Libraries
        BY <2>1, <2>3, FallbackChoosesWell DEF Inv
      <3>2. program' = printed' /\ ~moved'
        BY <2>3, <3>1 DEF RunScript, Links
      <3> QED BY <3>1, <3>2 DEF FallbackInv, RunScript, world
    <2> QED BY <2>2, <2>3 DEF RunScript
  <1> QED BY <1>2, <1>3 DEF Inv

LEMMA StepInv == Inv /\ [Next]_vars => Inv'
  <1> SUFFICES ASSUME Inv, [Next]_vars PROVE Inv'
    OBVIOUS
  <1> USE DEF Inv, TypeOK, FallbackInv, world
  <1>1. CASE BuildSys
    BY <1>1 DEF BuildSys
  <1>2. CASE RunScript
    BY <1>2, RunScriptInv
  <1>3. CASE KeepScript
    BY <1>3 DEF KeepScript, MustRun
  <1>4. CASE SetEnvironment
    BY <1>4 DEF SetEnvironment
  <1>5. CASE ChangeInstallation
    BY <1>5 DEF ChangeInstallation
  <1>6. CASE ChangeSDK
    BY <1>6 DEF ChangeSDK
  <1>7. CASE EditPackage
    BY <1>7 DEF EditPackage
  <1>8. CASE UNCHANGED vars
    BY <1>8 DEF vars
  <1> QED BY <1>1, <1>2, <1>3, <1>4, <1>5, <1>6, <1>7, <1>8 DEF Next

LEMMA Invariance == Spec => []Inv
  BY InitInv, StepInv, PTL DEF Spec

-----------------------------------------------------------------------------
\* The fallback script prints something the linker can work with wherever the
\* SDK is checked out.
LEMMA FallbackBuilds == Spec => []FallbackAlwaysBuilds
  <1>1. Inv => FallbackAlwaysBuilds
    <2> SUFFICES ASSUME Inv, script = "fallback", sdk, LinkPath # {}
                 PROVE  ScriptOutput # {} /\ \A output \in ScriptOutput : Links(output)
      BY DEF FallbackAlwaysBuilds
    <2>1. ScriptOutput = Fallback
      BY DEF ScriptOutput
    <2>2. \A output \in ScriptOutput : Links(output)
      BY <2>1, FallbackChoosesWell DEF Inv, Links
    <2>3. PICK dir : dir \in InstallDir
      BY DEF InstallDir
    <2>4. CASE files[dir] # Libraries \/ platform = "windows"
      <3>1. [search |-> Stubs, rpath |-> NoPath] \in IdasdkLinkage
        BY DEF IdasdkLinkage, SdkPaths
      <3>2. IdasdkLinkage = IF files[dir] # Libraries THEN IdasdkLinkage ELSE ConfiguredLinkage
        BY <2>4 DEF ConfiguredLinkage
      <3>3. [search |-> Stubs, rpath |-> NoPath] \in Fallback
        BY <2>3, <3>1, <3>2 DEF Fallback
      <3> QED BY <2>1, <2>2, <3>3
    <2>5. CASE files[dir] = Libraries /\ platform # "windows"
      <3>1. dir \in InstallPaths
        BY <2>3, <2>5 DEF InstallPaths, Libraries
      <3>2. [search |-> Stubs, rpath |-> dir] \in ConfiguredLinkage
        BY <2>5, <3>1 DEF ConfiguredLinkage, SdkPaths
      <3>3. [search |-> Stubs, rpath |-> dir] \in Fallback
        BY <2>3, <2>5, <3>2 DEF Fallback
      <3> QED BY <2>1, <2>2, <3>3
    <2> QED BY <2>2, <2>4, <2>5
  <1> QED BY <1>1, Invariance, PTL

\* A program the fallback script built for an installation finds both libraries
\* as long as the installation is left alone.
LEMMA FallbackStarts == Spec => []FallbackProgramStarts
  <1>1. Inv => FallbackProgramStarts
    <2> SUFFICES ASSUME Inv, script = "fallback", program.rpath # NoPath, ~moved
                 PROVE  Starts
      BY DEF FallbackProgramStarts
    <2>1. program.rpath \in Dirs /\ files[program.rpath] = Libraries
      BY DEF Inv, TypeOK, FallbackInv, Outputs, NotYet
    <2> QED BY <2>1 DEF Starts
  <1> QED BY <1>1, Invariance, PTL

\* Both promises of idalib's own build script, for every set of directories: it
\* builds wherever the SDK is, and a program built for an installation starts as
\* long as that is left alone.
THEOREM FallbackIsSound == Spec => []FallbackWorks
  BY FallbackBuilds, FallbackStarts, PTL DEF FallbackWorks
=============================================================================
