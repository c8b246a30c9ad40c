-------------------------- MODULE HyperscanEngine --------------------------
(***************************************************************************)
(* HyperscanScanner (src/src/aiproxyguard/scanner/regex.py): reload() on   *)
(* the event loop against scan() in threads of the pool.  _lock guards the *)
(* database, the pattern map and the fallback list; _get_scratch reads     *)
(* self._db again, outside the lock, three times.  Compiling releases the  *)
(* GIL, so a database that is not compiled yet can be seen.                *)
(*                                                                         *)
(* A database, a pattern map and a fallback list are named by the number   *)
(* of the signature set they were built from.  id() of a database is its   *)
(* address, which a later database may get once nothing holds the earlier. *)
(*                                                                         *)
(* An operator named Faulty... is a slip a change of the code could make;  *)
(* nothing here uses it (README.md).                                       *)
(***************************************************************************)
EXTENDS Integers

CONSTANTS
  Threads,      \* pool threads
  MaxVersions,  \* bound: signature sets, the boot set included
  Bare,         \* sets with no pattern for Hyperscan
  ScratchPins,  \* whether a scratch space keeps the database it was made for alive
  None          \* no database, no scratch space

\* What RegexScanner assumes of the constants.
HyperscanConstants ==
  /\ MaxVersions \in Nat \ {0}
  /\ Bare \subseteq 2 .. MaxVersions
  /\ ScratchPins \in BOOLEAN
  /\ None \notin Nat

VARIABLES
  version,   \* _signatures
  loop,      \* reload(): idle, mapped (lists built) or compiling; not idle: it holds _lock
  db,        \* _db
  compiled,  \* whether db has been compiled
  addr,      \* the address of each database made
  map,       \* _pattern_map and _unicode_fallback
  scratch,   \* _scratch_local.scratch of each thread: the database it is for
  owner,     \* _scratch_local.db_id of each thread
  scan,      \* the locals of each thread's scan()
  calm,      \* history: no reload step since the thread's snapshot
  recycled   \* history: the threads whose db_id is an address given away since

vars == <<version, loop, db, compiled, addr, map, scratch, owner, scan, calm, recycled>>

Versions == 1 .. MaxVersions

\* outcome: what became of the Hyperscan part.
Ready == [pc |-> "ready", db |-> None, map |-> 1, id |-> None, outcome |-> "none"]

Init ==
  /\ version = 1
  /\ loop = "idle"
  /\ db = 1
  /\ compiled = TRUE
  /\ addr = [v \in Versions |-> v]
  /\ map = 1
  /\ scratch = [t \in Threads |-> None]
  /\ owner = [t \in Threads |-> None]
  /\ scan = [t \in Threads |-> Ready]
  /\ calm = [t \in Threads |-> TRUE]
  /\ recycled = {}

----------------------------------------------------------------------------
(* reload(), from the event loop.                                          *)

Disturb == calm' = [t \in Threads |-> FALSE]

\* Take the lock and build the lists; a scan sees none of it before the end.
ReloadStarts ==
  /\ loop = "idle" /\ version < MaxVersions
  /\ version' = version + 1
  /\ map' = version'
  /\ loop' = "mapped"
  /\ Disturb
  /\ UNCHANGED <<db, compiled, addr, scratch, owner, scan, recycled>>

\* The addresses of the databases that self._db, a scan or a scratch space holds.
Held ==
  {addr[v] : v \in ({db} \cup {scan[t].db : t \in Threads}
                    \cup IF ScratchPins THEN {scratch[t] : t \in Threads} ELSE {}) \ {None}}

\* Where database v may come to lie: somewhere new, or where an earlier one lay.
Free(v) == {v} \cup ({addr[w] : w \in (1 .. v - 1) \ Bare} \ Held)

FaultyRebinds ==
  /\ loop = "mapped"
  /\ db' = version
  /\ compiled' = FALSE
  /\ loop' = IF version \in Bare THEN "idle" ELSE "compiling"
  /\ Disturb
  /\ UNCHANGED <<version, addr, map, scratch, owner, scan, recycled>>

\* self._db = None or self._db = hyperscan.Database()
Rebinds ==
  /\ loop = "mapped"
  /\ \/ /\ version \in Bare
        /\ db' = None /\ loop' = "idle"
        /\ UNCHANGED <<addr, recycled>>
     \/ /\ version \notin Bare
        /\ db' = version /\ loop' = "compiling"
        /\ \E a \in Free(version) :
             /\ addr' = [addr EXCEPT ![version] = a]
             /\ recycled' = recycled \cup {t \in Threads : owner[t] = a}
  /\ compiled' = FALSE
  /\ Disturb
  /\ UNCHANGED <<version, map, scratch, owner, scan>>

\* Database.compile() returns or raises hyperscan.error.
Compiles ==
  /\ loop = "compiling"
  /\ loop' = "idle"
  /\ \/ compiled' = TRUE /\ UNCHANGED db
     \/ db' = None /\ UNCHANGED compiled
  /\ Disturb
  /\ UNCHANGED <<version, addr, map, scratch, owner, scan, recycled>>

----------------------------------------------------------------------------
(* scan(), in a thread of the pool.                                        *)

Goes(t, s) == scan' = [scan EXCEPT ![t] = s]

Shared == UNCHANGED <<version, loop, db, compiled, addr, map>>

\* Under the lock; without a database only the fallback list is scanned.
Snapshots(t) ==
  /\ scan[t].pc = "ready" /\ loop = "idle"
  /\ Goes(t, [Ready EXCEPT !.db = db, !.map = map,
                           !.pc = IF db = None THEN "fallback" ELSE "scratch"])
  /\ calm' = [calm EXCEPT ![t] = TRUE]
  /\ Shared /\ UNCHANGED <<scratch, owner, recycled>>

\* _get_scratch: if self._db is None
LooksAtDb(t) ==
  /\ scan[t].pc = "scratch"
  /\ Goes(t, IF db = None
             THEN [scan[t] EXCEPT !.pc = "fallback", !.outcome = "skipped"]
             ELSE [scan[t] EXCEPT !.pc = "identify"])
  /\ Shared /\ UNCHANGED <<scratch, owner, calm, recycled>>

\* id(self._db)
Id == IF db = None THEN None ELSE addr[db]

FaultyIdentifies(t) ==
  /\ scan[t].pc = "identify"
  /\ Goes(t, [scan[t] EXCEPT !.id = Id,
                !.pc = IF scratch[t] = None THEN "allocate" ELSE "match"])
  /\ Shared /\ UNCHANGED <<scratch, owner, calm, recycled>>

\* current_db_id, compared with the one kept beside the scratch space.
Identifies(t) ==
  /\ scan[t].pc = "identify"
  /\ Goes(t, [scan[t] EXCEPT !.id = Id,
                !.pc = IF scratch[t] = None \/ owner[t] # Id THEN "allocate" ELSE "match"])
  /\ Shared /\ UNCHANGED <<scratch, owner, calm, recycled>>

\* hyperscan.Scratch(self._db), kept under the id read before.  For a database that
\* is not compiled it raises hyperscan.error, for None possibly another error, which
\* leaves scan().
Allocates(t) ==
  /\ scan[t].pc = "allocate"
  /\ IF db # None /\ compiled
     THEN /\ scratch' = [scratch EXCEPT ![t] = db]
          /\ owner' = [owner EXCEPT ![t] = scan[t].id]
          /\ recycled' = recycled \ {t}
          /\ Goes(t, [scan[t] EXCEPT !.pc = "match"])
     ELSE /\ UNCHANGED <<scratch, owner, recycled>>
          /\ \/ Goes(t, [scan[t] EXCEPT !.pc = "fallback", !.outcome = "skipped"])
             \/ db = None /\ Goes(t, [scan[t] EXCEPT !.pc = "done", !.outcome = "raised"])
  /\ Shared /\ UNCHANGED calm

\* db.scan() on the snapshot; with a scratch space of another database it may
\* raise hyperscan.error, which is logged.
Matches(t) ==
  /\ scan[t].pc = "match"
  /\ \/ Goes(t, [scan[t] EXCEPT !.pc = "fallback", !.outcome = "matched"])
     \/ /\ scratch[t] # scan[t].db
        /\ Goes(t, [scan[t] EXCEPT !.pc = "fallback", !.outcome = "skipped"])
  /\ Shared /\ UNCHANGED <<scratch, owner, calm, recycled>>

ScansFallback(t) ==
  /\ scan[t].pc = "fallback"
  /\ Goes(t, [scan[t] EXCEPT !.pc = "done"])
  /\ Shared /\ UNCHANGED <<scratch, owner, calm, recycled>>

\* The caller has the matches, or the error.
Returns(t) ==
  /\ scan[t].pc = "done"
  /\ Goes(t, Ready)
  /\ calm' = [calm EXCEPT ![t] = TRUE]
  /\ Shared /\ UNCHANGED <<scratch, owner, recycled>>

----------------------------------------------------------------------------
Reload == ReloadStarts \/ Rebinds \/ Compiles

\* What a scan does between its snapshot and its return.
GoesOn(t) ==
  \/ LooksAtDb(t) \/ Identifies(t) \/ Allocates(t) \/ Matches(t) \/ ScansFallback(t)

Next == Reload \/ \E t \in Threads : Snapshots(t) \/ GoesOn(t) \/ Returns(t)

Spec == Init /\ [][Next]_vars

----------------------------------------------------------------------------
(* Properties.                                                             *)

\* The type of every variable.
TypeOK ==
  /\ version \in Versions
  /\ loop \in {"idle", "mapped", "compiling"}
  /\ db \in Versions \cup {None}
  /\ compiled \in BOOLEAN
  /\ loop = "idle" /\ db # None => compiled
  /\ addr \in [Versions -> Versions]
  /\ map \in Versions
  /\ scratch \in [Threads -> Versions \cup {None}]
  /\ owner \in [Threads -> Versions \cup {None}]
  /\ scan \in [Threads -> [pc : {"ready", "scratch", "identify", "allocate", "match",
                                 "fallback", "done"},
                           db : Versions \cup {None},
                           map : Versions,
                           id : Versions \cup {None},
                           outcome : {"none", "matched", "skipped", "raised"}]]
  /\ calm \in [Threads -> BOOLEAN]
  /\ recycled \subseteq Threads

\* The pattern map a scan reports its matches with is the one of the database it
\* scans with, so a match never names the wrong signature.
SnapshotsAgree ==
  \A t \in Threads : scan[t].pc # "ready" /\ scan[t].db # None =>
    scan[t].map = scan[t].db

\* A scan that no reload overlaps applies the whole database with a scratch space
\* made for it, also in a thread whose scratch space is left over from earlier
\* databases and torn allocations; except precisely in a thread that kept its
\* scratch space under an address that a later database has been given since.
CalmScansAreWhole ==
  \A t \in Threads :
    scan[t].pc = "done" /\ calm[t] /\ scan[t].db # None /\ t \notin recycled =>
      scan[t].outcome = "matched" /\ scratch[t] = scan[t].db

\* "Take a snapshot of the current state under lock to avoid races with
\* reload()" (scan): a scan applies the database of its snapshot, whatever
\* reloads run meanwhile.
SnapshotsAreScanned ==
  \A t \in Threads : scan[t].pc = "done" /\ scan[t].db # None => scan[t].outcome = "matched"
=============================================================================
