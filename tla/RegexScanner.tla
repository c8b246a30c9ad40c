---------------------------- MODULE RegexScanner ----------------------------
(***************************************************************************)
(* RegexScanner (src/src/aiproxyguard/scanner/regex.py): one of the two    *)
(* kinds of engine behind one scan() and one reload().  Only the engine    *)
(* chosen moves; its reload runs on the event loop, a piece at a time as   *)
(* far as the scans in the threads of the pool can see.                    *)
(***************************************************************************)
EXTENDS Integers, Sequences

CONSTANTS
  Threads,      \* pool threads
  MaxVersions,  \* bound: signature sets, the boot set included
  Size,         \* patterns in a set
  Invalid,      \* patterns re2 and re refuse to compile
  Bare,         \* sets with no pattern for Hyperscan
  ScratchPins,  \* whether a scratch space keeps its database alive
  Engines,      \* the engines that may be installed
  None          \* no database, no scratch space, no model

VARIABLES
  engine,                                    \* _REGEX_ENGINE
  version, loop,                             \* of either engine
  next, lists, bound, listScan, since,       \* ListEngine
  db, compiled, addr, map, scratch, owner,   \* HyperscanEngine
  hyperScan, calm, recycled

listVars == <<next, lists, bound, listScan, since>>
hyperVars == <<db, compiled, addr, map, scratch, owner, hyperScan, calm, recycled>>
regexVars == <<engine, version, loop, listVars, hyperVars>>

List == INSTANCE ListEngine WITH Scans <- Threads, compiled <- bound, scan <- listScan
Hyper == INSTANCE HyperscanEngine WITH scan <- hyperScan

ASSUME EnginesAssumption ==
  /\ Engines \subseteq {"hyperscan", "re2", "re"}
  /\ List!ListConstants
  /\ Hyper!HyperscanConstants

ByHyperscan == engine = "hyperscan"

\* _create_engine
EngineCreated ==
  /\ engine \in Engines
  /\ List!Init
  /\ Hyper!Init

----------------------------------------------------------------------------
(* Each operation is the one of the engine.                                *)

Either(hyper, list) ==
  \/ ByHyperscan /\ hyper /\ UNCHANGED <<engine, listVars>>
  \/ ~ByHyperscan /\ list /\ UNCHANGED <<engine, hyperVars>>

Reloading == loop # "idle"

RegexReloadStarts == Either(Hyper!ReloadStarts, List!ReloadStarts)

RegexReloadGoesOn ==
  Either(Hyper!Rebinds \/ Hyper!Compiles, List!CompileStarts \/ List!Compiles \/ List!ReloadEnds)

RegexScanStarts(t) == Either(Hyper!Snapshots(t), List!ScanStarts(t))

RegexScanGoesOn(t) == Either(Hyper!GoesOn(t), List!ScanGoesOn(t))

RegexScanReturns(t) == Either(Hyper!Returns(t), List!ScanReturns(t))

----------------------------------------------------------------------------
(* What a scan that is done has applied.                                   *)

RegexRaised(t) == ByHyperscan /\ hyperScan[t].outcome = "raised"

Reported(t) ==
  IF ~ByHyperscan THEN listScan[t].applied
  ELSE IF hyperScan[t].outcome # "matched" THEN <<>>
  ELSE [i \in 1 .. Size |-> [version |-> hyperScan[t].map, index |-> i]]

\* The scratch space of the thread may pass for one of the current database.
Recycled(t) == ByHyperscan /\ t \in recycled

\* What a scan applies when nothing interferes: without a database, because its
\* patterns did not compile or there are none, nothing of the set.
WholeSet ==
  IF ~ByHyperscan THEN List!Whole(version)
  ELSE IF db = None THEN <<>>
  ELSE [i \in 1 .. Size |-> [version |-> version, index |-> i]]

----------------------------------------------------------------------------
(* Properties of either engine.                                            *)

\* The type of every variable of the engines.
EnginesTypeOK == engine \in Engines /\ IF ByHyperscan THEN Hyper!TypeOK ELSE List!TypeOK

\* One scan never reports patterns of two signature sets, nor the matches of one
\* set under the names of another, however often the signatures are reloaded.
OneSetPerScan == List!NoMixedVersions /\ Hyper!SnapshotsAgree

\* A scan that no reload disturbs applies the whole set in force: with the lists,
\* one that began between reloads; with Hyperscan, one that no reload overlaps,
\* also in a thread with scratch spaces left over from earlier databases, unless
\* the address it remembers has been given to another database.
UndisturbedScansAreWhole == List!SettledScansAreWhole /\ Hyper!CalmScansAreWhole
=============================================================================
