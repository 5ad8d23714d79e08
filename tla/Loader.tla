------------------------------- MODULE Loader -------------------------------
(***************************************************************************)
(* The native library loader (internal/loader, internal/runtime): processes  *)
(* that each embed a build of the runtime library extract it into a cache    *)
(* directory they share and open it from there during initialization.  Any   *)
(* step of the file system may fail, and a process may be killed anywhere    *)
(* and started again; what it wrote stays.                                  *)
(*                                                                         *)
(* A file is a record: the artifact its bytes are of and whether all of them *)
(* are there.  Digests are taken to be distinct, so a cache path is named by *)
(* the artifact whose digest is in it.  A failure panics with a reason,      *)
(* which ends the process.                                                  *)
(***************************************************************************)
EXTENDS Naturals, FiniteSets

CONSTANTS
    Processes,
    Artifacts,  \* the builds of the runtime library that are embedded
    NoFile,     \* a path at which there is nothing
    Foreign     \* the artifact of a file somebody else put there

\* What OPENPIT_RUNTIME_LIBRARY_PATH may name.
Overrides == {"none", "relative", "missing", "notLibrary", "otherVersion", "library"}

File(artifact, whole) == [of |-> artifact, whole |-> whole]
Files == [of : Artifacts \cup {Foreign}, whole : BOOLEAN]

ASSUME LoaderAssumption == Foreign \notin Artifacts /\ NoFile \notin Files

VARIABLES
    lpc,       \* where the initialization of a process is
    override,  \* its environment's override
    embedded,  \* the artifact built into it
    files,     \* the file at the cache path of each artifact
    temp,      \* the process's temporary file
    loaded     \* what the process opened

loaderVars == <<lpc, override, embedded, files, temp, loaded>>

LoaderInit ==
    /\ lpc = [p \in Processes |-> "start"]
    /\ override \in [Processes -> Overrides]
    /\ embedded \in [Processes -> Artifacts]
    /\ files = [a \in Artifacts |-> NoFile]
    /\ temp = [p \in Processes |-> NoFile]
    /\ loaded = [p \in Processes |-> NoFile]

\* Before the first process runs.
LoaderOff ==
    /\ lpc = [p \in Processes |-> "start"]
    /\ override = [p \in Processes |-> "none"]
    /\ embedded = [p \in Processes |-> CHOOSE a \in Artifacts : TRUE]
    /\ files = [a \in Artifacts |-> NoFile]
    /\ temp = [p \in Processes |-> NoFile]
    /\ loaded = [p \in Processes |-> NoFile]

Goes(p, from, to) == lpc[p] = from /\ lpc' = [lpc EXCEPT ![p] = to]

Panics(p, from) == Goes(p, from, "panicked")

-----------------------------------------------------------------------------
(* resolvePath.                                                             *)

\* The override must be an absolute path of something that exists; without
\* one the platform must have an embedded library, and there must be a cache
\* directory.
ResolveOverride(p) ==
    /\ \/ override[p] \in {"relative", "missing"} /\ Panics(p, "start")
       \/ override[p] \in {"notLibrary", "otherVersion", "library"} /\ Goes(p, "start", "open")
       \/ override[p] = "none" /\ (Goes(p, "start", "stat") \/ Panics(p, "start"))
    /\ UNCHANGED <<override, embedded, files, temp, loaded>>

\* Variant of TargetPath: the directory is not keyed by the content's digest.
TargetPathShared(p) == CHOOSE a \in Artifacts : TRUE

\* pitruntime.Hash and targetPath: cacheDir/contentHash/fileName.
TargetPath(p) == embedded[p]

\* os.Stat(targetPath): reuse what is there, go on when nothing is.
StatTarget(p) ==
    /\ \/ files[TargetPath(p)] # NoFile /\ Goes(p, "stat", "open")
       \/ files[TargetPath(p)] = NoFile /\ Goes(p, "stat", "create")
       \/ Panics(p, "stat")
    /\ UNCHANGED <<override, embedded, files, temp, loaded>>

\* pitruntime.Load, the check of its name, MkdirAll and CreateTemp.
CreateTemp(p) ==
    /\ \/ /\ Goes(p, "create", "write")
          /\ temp' = [temp EXCEPT ![p] = File(embedded[p], FALSE)]
       \/ Panics(p, "create") /\ UNCHANGED temp
    /\ UNCHANGED <<override, embedded, files, loaded>>

\* tmpFile.Write, Chmod and Close; the deferred removal on failure.
WriteTemp(p) ==
    /\ \/ /\ Goes(p, "write", "rename")
          /\ temp' = [temp EXCEPT ![p] = File(embedded[p], TRUE)]
       \/ /\ Panics(p, "write")
          /\ temp' = [temp EXCEPT ![p] = NoFile]
    /\ UNCHANGED <<override, embedded, files, loaded>>

\* Variant of Publish: the target is written in place, and may be seen and
\* left half written.
PublishInPlace(p) ==
    \E whole \in BOOLEAN :
        files' = [files EXCEPT ![TargetPath(p)] = File(embedded[p], whole)]

\* os.Rename replaces whatever is at the target.
Publish(p) == files' = [files EXCEPT ![TargetPath(p)] = temp[p]]

\* A rename that fails, as it does on a platform that keeps an open library
\* locked, is as good as one that did not if somebody else's target is there.
RenameTemp(p) ==
    /\ \/ Goes(p, "rename", "open") /\ Publish(p)
       \/ /\ files[TargetPath(p)] # NoFile /\ Goes(p, "rename", "open")
          /\ UNCHANGED files
       \/ /\ files[TargetPath(p)] = NoFile /\ Panics(p, "rename")
          /\ UNCHANGED files
    /\ temp' = [temp EXCEPT ![p] = NoFile]
    /\ UNCHANGED <<override, embedded, loaded>>

-----------------------------------------------------------------------------
(* loadRuntimeLibrary, and the native package's own initialization.         *)

\* The file the resolved path names.
Resolved(p) ==
    IF override[p] = "none" THEN files[TargetPath(p)]
    ELSE File(Foreign, override[p] # "notLibrary")

\* validateSharedLibraryMagic reads four bytes.  They may be there in a file
\* that is not whole, and are not in what is no library at all.
HasMagic(p) == override[p] # "notLibrary"

\* The magic check and dlopen, which fails for want of anything and may not
\* notice that a file is cut short.
OpenLibrary(p) ==
    /\ \/ /\ HasMagic(p)
          /\ Goes(p, "open", "init")
          /\ loaded' = [loaded EXCEPT ![p] = Resolved(p)]
       \/ Panics(p, "open") /\ UNCHANGED loaded
    /\ UNCHANGED <<override, embedded, files, temp>>

\* Variant of VersionOK: any version will do.
VersionOKAny(p) == TRUE

\* GetRuntimeVersion() = SDKVersion, which what is embedded satisfies.
VersionOK(p) == override[p] # "otherVersion"

\* loadNativeSymbols and the version check.
InitNative(p) ==
    /\ \/ VersionOK(p) /\ Goes(p, "init", "running")
       \/ Panics(p, "init")
    /\ UNCHANGED <<override, embedded, files, temp, loaded>>

\* The process is killed, or ended after its panic, and started again, by the
\* same program or by one with another library built in.  A temporary file it
\* left is never looked at again.
Restart(p) ==
    /\ lpc[p] # "start"
    /\ lpc' = [lpc EXCEPT ![p] = "start"]
    /\ \E a \in Artifacts : embedded' = [embedded EXCEPT ![p] = a]
    /\ temp' = [temp EXCEPT ![p] = NoFile]
    /\ loaded' = [loaded EXCEPT ![p] = NoFile]
    /\ UNCHANGED <<override, files>>

LoaderNext ==
    \E p \in Processes :
        \/ ResolveOverride(p) \/ StatTarget(p) \/ CreateTemp(p) \/ WriteTemp(p)
        \/ RenameTemp(p) \/ OpenLibrary(p) \/ InitNative(p) \/ Restart(p)

LoaderSpec == LoaderInit /\ [][LoaderNext]_loaderVars

-----------------------------------------------------------------------------
(* Properties.                                                              *)

\* "A stale extraction is never reused" (internal/loader/loader.go), nor a
\* torn one: a process that got through initialization runs the whole library
\* built into it, or the override of its version that it was told to use,
\* whatever other processes extract, fail to write or die in the middle of.
LoadedWhole ==
    \A p \in Processes : lpc[p] = "running" =>
        \/ override[p] = "none" /\ loaded[p] = File(embedded[p], TRUE)
        \/ override[p] = "library" /\ loaded[p] = File(Foreign, TRUE)

=============================================================================
