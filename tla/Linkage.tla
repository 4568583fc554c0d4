------------------------------- MODULE Linkage -------------------------------
(***************************************************************************)
(* How a program that uses idalib is built and started: the build scripts  *)
(* of idalib-sys, idalib-build and idalib, and the linkage helpers of      *)
(* idalib-build/src/lib.rs a program calls from its own.  A script decides *)
(* from the environment and the files of that moment, cargo keeps what it  *)
(* printed until a file of the package changes, and the loader looks for   *)
(* the libraries later still, when both may be different.                  *)
(*                                                                         *)
(* The file names of the three platforms, and the formatting of the        *)
(* linker's arguments, are left out.  A definition whose name starts with  *)
(* Faulty is the definition after it with a plausible mistake, kept to     *)
(* show that a property notices it.                                        *)
(***************************************************************************)
CONSTANTS
    Dirs,         \* directories IDA can be installed in
    DefaultDir,   \* the one link_path knows
    Stubs,        \* the directory of the stub libraries in the SDK
    NoPath        \* no path: IDADIR is not set, or no RPATH

ASSUME LinkageAssumption ==
    /\ DefaultDir \in Dirs
    /\ {Stubs, NoPath} \cap Dirs = {} /\ Stubs # NoPath

Platforms == {"linux", "macos", "windows"}
Scripts == {"linkage", "installation", "sdk", "fallback"}
Libraries == {"idalib", "ida"}

VARIABLES
    platform,     \* cfg!(target_os)
    script,       \* the helper the program's build.rs calls
    idadir,       \* IDADIR
    home,         \* HOME is set
    files,        \* the libraries in each directory
    sdk,          \* the SDK submodule is checked out
    sys,          \* idalib-sys has been built, with the SDK as it is
    printed,      \* what cargo keeps of the last successful run of build.rs
    touched,      \* a file of the package, or what it is built on, changed since
    program       \* how the program was linked

(* History. *)
VARIABLES
    asked,        \* IDADIR when `cargo build' last succeeded
    moved         \* libraries changed since the script behind the program ran

world == <<platform, script, idadir, home, files, sdk>>
vars == <<world, sys, printed, touched, program, asked, moved>>

\* Where the linker looks for the libraries, and where the loader will.
Outputs == [search : Dirs \cup {Stubs}, rpath : Dirs \cup {NoPath}]

NotYet == [search |-> NoPath, rpath |-> NoPath]    \* no script, no program

Init ==
    /\ platform \in Platforms /\ script \in Scripts
    /\ idadir \in Dirs \cup {NoPath} /\ home \in BOOLEAN
    /\ files \in [Dirs -> SUBSET Libraries] /\ sdk \in BOOLEAN
    /\ sys = FALSE /\ touched = FALSE /\ moved = FALSE
    /\ printed = NotYet /\ program = NotYet
    /\ asked = NoPath

-----------------------------------------------------------------------------
(* idalib-build.  An operator gives what the helper prints, or nothing if  *)
(* it panics.                                                              *)

\* link_path: on Linux the default directory is below HOME.
LinkPath == IF platform = "linux" /\ ~home THEN {} ELSE {DefaultDir}

\* The directory part of idalib_install_paths_with(false).
InstallDir == IF idadir = NoPath THEN LinkPath ELSE {idadir}

\* idalib_install_paths: of the two libraries only libidalib has to exist.
InstallPaths == {dir \in InstallDir : "idalib" \in files[dir]}

\* idalib_sdk_paths: pro.h has to exist.
SdkPaths == IF sdk THEN {Stubs} ELSE {}

\* configure_idalib_linkage.
IdalibLinkage == {[search |-> dir, rpath |-> NoPath] : dir \in InstallPaths}

\* configure_idasdk_linkage.
IdasdkLinkage == {[search |-> dir, rpath |-> NoPath] : dir \in SdkPaths}

\* configure_linkage: the stubs for the linker, the installation for the loader.
ConfiguredLinkage ==
    IF platform = "windows" THEN IdasdkLinkage
    ELSE {[search |-> stubs, rpath |-> dir] : dir \in InstallPaths, stubs \in SdkPaths}

FaultyFallback ==     \* && for ||
    UNION {IF files[dir] = {} THEN IdasdkLinkage ELSE ConfiguredLinkage : dir \in InstallDir}

FaultyInstallationFallback ==    \* the wrong helper without an installation
    UNION {IF files[dir] # Libraries THEN IdalibLinkage ELSE ConfiguredLinkage :
              dir \in InstallDir}

\* The build.rs of idalib, which the README recommends to copy: the stubs if
\* either library is missing.
Fallback ==
    UNION {IF files[dir] # Libraries THEN IdasdkLinkage ELSE ConfiguredLinkage :
              dir \in InstallDir}

ScriptOutput ==
    CASE script = "linkage" -> ConfiguredLinkage
      [] script = "installation" -> IdalibLinkage
      [] script = "sdk" -> IdasdkLinkage
      [] script = "fallback" -> Fallback

-----------------------------------------------------------------------------
(* cargo, the linker and the loader.                                       *)

\* The libraries the linker is told to link against are where it looks.
Links(output) == IF output.search = Stubs THEN sdk ELSE files[output.search] = Libraries

\* The build script of idalib-sys: it gives the SDK's headers to clang and hands
\* the SDK's path to idalib-build.  Without the headers it panics, and so does
\* the build of all that depends on it.  It names only its lib.rs to cargo, but
\* autocxx_build names every header it has read, so that cargo repeats it when
\* the SDK goes or comes back, and then whatever was built on it.
BuildSys ==
    /\ ~sys /\ sdk
    /\ sys' = TRUE
    /\ touched' = TRUE
    /\ UNCHANGED <<world, printed, program, asked, moved>>

\* cargo runs build.rs if it has not run successfully yet or if the package or
\* what it is built on changed.  Neither the scripts nor the crates they call
\* print `rerun-if-env-changed=IDADIR', so a new IDADIR is no reason.
MustRun == printed = NotYet \/ touched

\* `cargo build' with a build.rs that runs.
RunScript ==
    /\ sys /\ MustRun
    /\ \/ /\ printed' \in ScriptOutput
          /\ touched' = FALSE
          /\ IF Links(printed')
             THEN program' = printed' /\ asked' = idadir /\ moved' = FALSE
             ELSE UNCHANGED <<program, asked, moved>>
       \/ /\ ScriptOutput = {}
          /\ printed' = NotYet
          /\ UNCHANGED <<touched, program, asked, moved>>
    /\ UNCHANGED <<world, sys>>

\* `cargo build' with what build.rs printed before; a program that is there
\* already is not linked again.
KeepScript ==
    /\ sys /\ ~MustRun
    /\ program = printed \/ Links(printed)
    /\ program' = printed
    /\ asked' = idadir
    /\ UNCHANGED <<world, sys, printed, touched, moved>>

\* The loader finds both libraries in the RPATH.
Starts == program.rpath \in Dirs /\ files[program.rpath] = Libraries

-----------------------------------------------------------------------------
(* What happens between two builds.                                        *)

SetEnvironment ==
    /\ idadir' \in Dirs \cup {NoPath}
    /\ home' \in BOOLEAN
    /\ UNCHANGED <<platform, script, files, sdk, sys, printed, touched, program, asked, moved>>

\* IDA is installed, removed or replaced by an incomplete one.
ChangeInstallation ==
    /\ \E dir \in Dirs, libraries \in SUBSET Libraries :
         files' = [files EXCEPT ![dir] = libraries]
    /\ moved' = (moved \/ files' # files)
    /\ UNCHANGED <<platform, script, idadir, home, sdk, sys, printed, touched, program, asked>>

\* `git submodule update', or a fresh clone without it.
ChangeSDK ==
    /\ sdk' = ~sdk
    /\ sys' = FALSE
    /\ UNCHANGED <<platform, script, idadir, home, files, printed, touched, program,
                   asked, moved>>

EditPackage ==
    /\ touched' = TRUE
    /\ UNCHANGED <<world, sys, printed, program, asked, moved>>

Next ==
    \/ BuildSys \/ RunScript \/ KeepScript
    \/ SetEnvironment \/ ChangeInstallation \/ ChangeSDK \/ EditPackage

Spec == Init /\ [][Next]_vars

-----------------------------------------------------------------------------
(* Properties.                                                             *)

\* The build.rs of idalib builds wherever the SDK is, with a complete, a broken
\* or no installation: that is what the README recommends it for.  It only
\* needs HOME on Linux, even to look no further than that.
FallbackAlwaysBuilds ==
    script = "fallback" /\ sdk /\ LinkPath # {}
        => ScriptOutput # {} /\ \A output \in ScriptOutput : Links(output)

\* A program that this script built for an installation starts, by itself, as
\* long as the installation is left alone: both libraries were there.  For
\* configure_linkage alone this would be false, since it looks for one of them.
FallbackProgramStarts ==
    script = "fallback" /\ program.rpath # NoPath /\ ~moved => Starts

\* The fallback script keeps both of its promises: it gives up neither the build
\* for the installation nor the program's start for the build.
FallbackWorks == FallbackAlwaysBuilds /\ FallbackProgramStarts

\* The README on a program that does not find its libraries: it helps to set
\* IDADIR when building.
IDADIRCountsAtBuildTime ==
    script = "linkage" /\ platform # "windows" /\ asked # NoPath => program.rpath = asked
=============================================================================
